---- MODULE Spec2Model ----
(***************************************************************************)
(* Label-understanding pipeline of the UPC validator: text normalizer,     *)
(* UPC/EAN checksum validator, field extractors and the reconciliation     *)
(* engine.  Strings are sequences of Unicode code points, so that regular  *)
(* expressions, case folding and whitespace handling are computed as the   *)
(* Python code computes them.                                              *)
(***************************************************************************)
EXTENDS Integers, Sequences, FiniteSets

VARIABLES
    pc,          \* position of the harness that drives the function under study
    code,        \* argument of is_valid_upc_ean
    valid,       \* value returned by is_valid_upc_ean
    text,        \* raw text handed to normalize_text / the extractors
    normalized,  \* normalize_text(text)
    renormalized,\* normalize_text(normalized): the second pass made by callers
    zbar_decode, \* FALSE when pyzbar could not be imported (zbar_decode is None)
    tag_image,   \* the image handed to extract_tag_info
    upc_found,   \* value returned by extract_upc_candidate / extract_valid_upc
    label_info,  \* record returned by extract_care_label_info / extract_tag_info
    rows,        \* expected rows handed to validate_rows
    care_labels, \* care-label items handed to validate_rows
    hang_tags,   \* hang-tag items handed to validate_rows
    validation,  \* value returned by validate_rows
    raised,      \* name of the exception the call ended with, "" when it returned
    document,    \* the document handed to classify_pdf
    classification, \* value returned by the last classify_pdf that returned
    history,     \* the calls of classify_pdf made so far
    extractor,   \* "care" for extract_care_labels, "hang" for extract_hang_tags
    config,      \* the keyword arguments of the extractor
    extraction,  \* value returned by the extractor
    sheet,       \* the data frame pandas reads from the spreadsheet
    sheet_rows,  \* value returned by read_spreadsheet
    metadata,    \* items and parent_info handed to _normalize_items
    merged,      \* value returned by _normalize_items
    uploads,     \* the files posted to /extract
    file_index,  \* the file the loop of the /extract handler is at
    tmp_files,   \* the temporary copies that exist
    calls,       \* the calls the /extract handler has made so far
    pending,     \* the exception that is passing through the finally clause
    response     \* the two collections the /extract handler builds

vars == <<pc, code, valid, text, normalized, renormalized, zbar_decode, tag_image,
          upc_found, label_info, rows, care_labels, hang_tags, validation,
          raised, document, classification, history, extractor, config, extraction,
          sheet, sheet_rows, metadata, merged, uploads, file_index, tmp_files,
          calls, pending, response>>

classifyVars == <<document, classification, history>>
segmentVars == <<extractor, config, extraction>>
sheetVars == <<sheet, sheet_rows>>
mergeVars == <<metadata, merged>>
handlerVars == <<uploads, file_index, tmp_files, calls, pending, response>>
serviceVars == <<sheetVars, mergeVars, handlerVars>>

(***************************************************************************)
(* Characters                                                              *)
(***************************************************************************)
\* the replacement character of the substitutions
SP == 32

IsDigit(c) == c >= 48 /\ c <= 57

\* str.isspace(), and \s of a str pattern: the white space of Unicode
IsSpace(c) ==
    c \in {9, 10, 11, 12, 13, 28, 29, 30, 31, 32, 133, 160, 5760, 8192, 8193, 8194, 8195, 8196, 8197, 8198, 8199, 8200, 8201, 8202, 8232, 8233, 8239, 8287, 12288}

IsPrintable(c) == c >= 32 /\ c <= 126

IsUpper(c) == c >= 65 /\ c <= 90
IsLower(c) == c >= 97 /\ c <= 122
IsWord(c) == IsDigit(c) \/ IsUpper(c) \/ IsLower(c) \/ c = 95

\* the letter a character is matched as under re.IGNORECASE, in upper case:
\* beside the ASCII letters, U+0130 and U+0131 match I, U+017F matches S and
\* U+212A matches K
ToUpper(c) ==
    IF IsLower(c) THEN c - 32
    ELSE IF c \in {304, 305} THEN 73
    ELSE IF c = 383 THEN 83
    ELSE IF c = 8490 THEN 75
    ELSE c

\* the decimal digits of Unicode (\d of a str pattern, str.isdecimal(), the
\* characters int() accepts): the ten code points from each of these zeros on
DECIMAL_ZEROS ==
    {48, 1632, 1776, 1984, 2406, 2534, 2662, 2790, 2918, 3046, 3174, 3302, 3430, 3558, 3664,
     3792, 3872, 4160, 4240, 6112, 6160, 6470, 6608, 6784, 6800, 6992, 7088, 7232, 7248, 42528,
     43216, 43264, 43472, 43504, 43600, 44016, 65296, 66720, 68912, 69734, 69872, 69942, 70096,
     70384, 70736, 70864, 71248, 71360, 71472, 71904, 72016, 72784, 73040, 73120, 92768, 92864,
     93008, 120782, 120792, 120802, 120812, 120822, 123200, 123632, 125264, 130032}
IsDecimal(c) == IsDigit(c) \/ (c > 127 /\ \E z \in DECIMAL_ZEROS : c >= z /\ c <= z + 9)

\* the characters str.isdigit() accepts beside the decimal digits:
\* superscripts, subscripts, circled and parenthesized digits and the like
OTHER_DIGITS ==
    (178..179) \cup {185} \cup (4969..4977) \cup {6618} \cup {8304} \cup (8308..8313) \cup (8320..8329) \cup (9312..9320) \cup
    (9332..9340) \cup (9352..9360) \cup {9450} \cup (9461..9469) \cup {9471} \cup (10102..10110) \cup (10112..10120) \cup
    (10122..10130) \cup (68160..68163) \cup (69216..69224) \cup (69714..69722) \cup (127232..127242)
IsPyDigit(c) == IsDecimal(c) \/ c \in OTHER_DIGITS

\* int() of a one-character string, defined on the decimal digits; on any
\* other character int() raises ValueError
IntOf(c) == c - (CHOOSE z \in DECIMAL_ZEROS : c >= z /\ c <= z + 9)

\* str.upper() beyond ASCII. A run <<lo, hi, step, delta>> says that the
\* characters lo, lo + step, ..., hi become the character delta further on
UPPER_RUNS ==
    {<<181, 181, 1, 743>>, <<224, 246, 1, -32>>, <<248, 254, 1, -32>>, <<255, 255, 1, 121>>,
     <<257, 303, 2, -1>>, <<305, 305, 1, -232>>, <<307, 311, 2, -1>>, <<314, 328, 2, -1>>,
     <<331, 375, 2, -1>>, <<378, 382, 2, -1>>, <<383, 383, 1, -300>>, <<384, 384, 1, 195>>,
     <<387, 389, 2, -1>>, <<392, 392, 1, -1>>, <<396, 396, 1, -1>>, <<402, 402, 1, -1>>,
     <<405, 405, 1, 97>>, <<409, 409, 1, -1>>, <<410, 410, 1, 163>>, <<414, 414, 1, 130>>,
     <<417, 421, 2, -1>>, <<424, 424, 1, -1>>, <<429, 429, 1, -1>>, <<432, 432, 1, -1>>,
     <<436, 438, 2, -1>>, <<441, 441, 1, -1>>, <<445, 445, 1, -1>>, <<447, 447, 1, 56>>,
     <<453, 453, 1, -1>>, <<454, 454, 1, -2>>, <<456, 456, 1, -1>>, <<457, 457, 1, -2>>,
     <<459, 459, 1, -1>>, <<460, 460, 1, -2>>, <<462, 476, 2, -1>>, <<477, 477, 1, -79>>,
     <<479, 495, 2, -1>>, <<498, 498, 1, -1>>, <<499, 499, 1, -2>>, <<501, 501, 1, -1>>,
     <<505, 543, 2, -1>>, <<547, 563, 2, -1>>, <<572, 572, 1, -1>>, <<575, 576, 1, 10815>>,
     <<578, 578, 1, -1>>, <<583, 591, 2, -1>>, <<592, 592, 1, 10783>>, <<593, 593, 1, 10780>>,
     <<594, 594, 1, 10782>>, <<595, 595, 1, -210>>, <<596, 596, 1, -206>>,
     <<598, 599, 1, -205>>, <<601, 601, 1, -202>>, <<603, 603, 1, -203>>,
     <<604, 604, 1, 42319>>, <<608, 608, 1, -205>>, <<609, 609, 1, 42315>>,
     <<611, 611, 1, -207>>, <<613, 613, 1, 42280>>, <<614, 614, 1, 42308>>,
     <<616, 616, 1, -209>>, <<617, 617, 1, -211>>, <<618, 618, 1, 42308>>,
     <<619, 619, 1, 10743>>, <<620, 620, 1, 42305>>, <<623, 623, 1, -211>>,
     <<625, 625, 1, 10749>>, <<626, 626, 1, -213>>, <<629, 629, 1, -214>>,
     <<637, 637, 1, 10727>>, <<640, 640, 1, -218>>, <<642, 642, 1, 42307>>,
     <<643, 643, 1, -218>>, <<647, 647, 1, 42282>>, <<648, 648, 1, -218>>,
     <<649, 649, 1, -69>>, <<650, 651, 1, -217>>, <<652, 652, 1, -71>>, <<658, 658, 1, -219>>,
     <<669, 669, 1, 42261>>, <<670, 670, 1, 42258>>, <<837, 837, 1, 84>>, <<881, 883, 2, -1>>,
     <<887, 887, 1, -1>>, <<891, 893, 1, 130>>, <<940, 940, 1, -38>>, <<941, 943, 1, -37>>,
     <<945, 961, 1, -32>>, <<962, 962, 1, -31>>, <<963, 971, 1, -32>>, <<972, 972, 1, -64>>,
     <<973, 974, 1, -63>>, <<976, 976, 1, -62>>, <<977, 977, 1, -57>>, <<981, 981, 1, -47>>,
     <<982, 982, 1, -54>>, <<983, 983, 1, -8>>, <<985, 1007, 2, -1>>, <<1008, 1008, 1, -86>>,
     <<1009, 1009, 1, -80>>, <<1010, 1010, 1, 7>>, <<1011, 1011, 1, -116>>,
     <<1013, 1013, 1, -96>>, <<1016, 1016, 1, -1>>, <<1019, 1019, 1, -1>>,
     <<1072, 1103, 1, -32>>, <<1104, 1119, 1, -80>>, <<1121, 1153, 2, -1>>,
     <<1163, 1215, 2, -1>>, <<1218, 1230, 2, -1>>, <<1231, 1231, 1, -15>>,
     <<1233, 1327, 2, -1>>, <<1377, 1414, 1, -48>>, <<4304, 4346, 1, 3008>>,
     <<4349, 4351, 1, 3008>>, <<5112, 5117, 1, -8>>, <<7296, 7296, 1, -6254>>,
     <<7297, 7297, 1, -6253>>, <<7298, 7298, 1, -6244>>, <<7299, 7300, 1, -6242>>,
     <<7301, 7301, 1, -6243>>, <<7302, 7302, 1, -6236>>, <<7303, 7303, 1, -6181>>,
     <<7304, 7304, 1, 35266>>, <<7545, 7545, 1, 35332>>, <<7549, 7549, 1, 3814>>,
     <<7566, 7566, 1, 35384>>, <<7681, 7829, 2, -1>>, <<7835, 7835, 1, -59>>,
     <<7841, 7935, 2, -1>>, <<7936, 7943, 1, 8>>, <<7952, 7957, 1, 8>>, <<7968, 7975, 1, 8>>,
     <<7984, 7991, 1, 8>>, <<8000, 8005, 1, 8>>, <<8017, 8023, 2, 8>>, <<8032, 8039, 1, 8>>,
     <<8048, 8049, 1, 74>>, <<8050, 8053, 1, 86>>, <<8054, 8055, 1, 100>>,
     <<8056, 8057, 1, 128>>, <<8058, 8059, 1, 112>>, <<8060, 8061, 1, 126>>,
     <<8112, 8113, 1, 8>>, <<8126, 8126, 1, -7205>>, <<8144, 8145, 1, 8>>,
     <<8160, 8161, 1, 8>>, <<8165, 8165, 1, 7>>, <<8526, 8526, 1, -28>>,
     <<8560, 8575, 1, -16>>, <<8580, 8580, 1, -1>>, <<9424, 9449, 1, -26>>,
     <<11312, 11359, 1, -48>>, <<11361, 11361, 1, -1>>, <<11365, 11365, 1, -10795>>,
     <<11366, 11366, 1, -10792>>, <<11368, 11372, 2, -1>>, <<11379, 11379, 1, -1>>,
     <<11382, 11382, 1, -1>>, <<11393, 11491, 2, -1>>, <<11500, 11502, 2, -1>>,
     <<11507, 11507, 1, -1>>, <<11520, 11557, 1, -7264>>, <<11559, 11559, 1, -7264>>,
     <<11565, 11565, 1, -7264>>, <<42561, 42605, 2, -1>>, <<42625, 42651, 2, -1>>,
     <<42787, 42799, 2, -1>>, <<42803, 42863, 2, -1>>, <<42874, 42876, 2, -1>>,
     <<42879, 42887, 2, -1>>, <<42892, 42892, 1, -1>>, <<42897, 42899, 2, -1>>,
     <<42900, 42900, 1, 48>>, <<42903, 42921, 2, -1>>, <<42933, 42947, 2, -1>>,
     <<42952, 42954, 2, -1>>, <<42961, 42961, 1, -1>>, <<42967, 42969, 2, -1>>,
     <<42998, 42998, 1, -1>>, <<43859, 43859, 1, -928>>, <<43888, 43967, 1, -38864>>,
     <<65345, 65370, 1, -32>>, <<66600, 66639, 1, -40>>, <<66776, 66811, 1, -40>>,
     <<66967, 67003, 2, -39>>, <<66968, 66976, 2, -39>>, <<66980, 66992, 2, -39>>,
     <<66996, 67000, 2, -39>>, <<67004, 67004, 1, -39>>, <<68800, 68850, 1, -64>>,
     <<71872, 71903, 1, -32>>, <<93792, 93823, 1, -32>>, <<125218, 125251, 1, -34>>}

\* the characters str.upper() turns into more than one character
UPPER_SPECIAL ==
    {<<223, <<83, 83>>>>, <<329, <<700, 78>>>>, <<496, <<74, 780>>>>,
     <<912, <<921, 776, 769>>>>, <<944, <<933, 776, 769>>>>, <<1415, <<1333, 1362>>>>,
     <<7830, <<72, 817>>>>, <<7831, <<84, 776>>>>, <<7832, <<87, 778>>>>,
     <<7833, <<89, 778>>>>, <<7834, <<65, 702>>>>, <<8016, <<933, 787>>>>,
     <<8018, <<933, 787, 768>>>>, <<8020, <<933, 787, 769>>>>, <<8022, <<933, 787, 834>>>>,
     <<8064, <<7944, 921>>>>, <<8065, <<7945, 921>>>>, <<8066, <<7946, 921>>>>,
     <<8067, <<7947, 921>>>>, <<8068, <<7948, 921>>>>, <<8069, <<7949, 921>>>>,
     <<8070, <<7950, 921>>>>, <<8071, <<7951, 921>>>>, <<8072, <<7944, 921>>>>,
     <<8073, <<7945, 921>>>>, <<8074, <<7946, 921>>>>, <<8075, <<7947, 921>>>>,
     <<8076, <<7948, 921>>>>, <<8077, <<7949, 921>>>>, <<8078, <<7950, 921>>>>,
     <<8079, <<7951, 921>>>>, <<8080, <<7976, 921>>>>, <<8081, <<7977, 921>>>>,
     <<8082, <<7978, 921>>>>, <<8083, <<7979, 921>>>>, <<8084, <<7980, 921>>>>,
     <<8085, <<7981, 921>>>>, <<8086, <<7982, 921>>>>, <<8087, <<7983, 921>>>>,
     <<8088, <<7976, 921>>>>, <<8089, <<7977, 921>>>>, <<8090, <<7978, 921>>>>,
     <<8091, <<7979, 921>>>>, <<8092, <<7980, 921>>>>, <<8093, <<7981, 921>>>>,
     <<8094, <<7982, 921>>>>, <<8095, <<7983, 921>>>>, <<8096, <<8040, 921>>>>,
     <<8097, <<8041, 921>>>>, <<8098, <<8042, 921>>>>, <<8099, <<8043, 921>>>>,
     <<8100, <<8044, 921>>>>, <<8101, <<8045, 921>>>>, <<8102, <<8046, 921>>>>,
     <<8103, <<8047, 921>>>>, <<8104, <<8040, 921>>>>, <<8105, <<8041, 921>>>>,
     <<8106, <<8042, 921>>>>, <<8107, <<8043, 921>>>>, <<8108, <<8044, 921>>>>,
     <<8109, <<8045, 921>>>>, <<8110, <<8046, 921>>>>, <<8111, <<8047, 921>>>>,
     <<8114, <<8122, 921>>>>, <<8115, <<913, 921>>>>, <<8116, <<902, 921>>>>,
     <<8118, <<913, 834>>>>, <<8119, <<913, 834, 921>>>>, <<8124, <<913, 921>>>>,
     <<8130, <<8138, 921>>>>, <<8131, <<919, 921>>>>, <<8132, <<905, 921>>>>,
     <<8134, <<919, 834>>>>, <<8135, <<919, 834, 921>>>>, <<8140, <<919, 921>>>>,
     <<8146, <<921, 776, 768>>>>, <<8147, <<921, 776, 769>>>>, <<8150, <<921, 834>>>>,
     <<8151, <<921, 776, 834>>>>, <<8162, <<933, 776, 768>>>>, <<8163, <<933, 776, 769>>>>,
     <<8164, <<929, 787>>>>, <<8166, <<933, 834>>>>, <<8167, <<933, 776, 834>>>>,
     <<8178, <<8186, 921>>>>, <<8179, <<937, 921>>>>, <<8180, <<911, 921>>>>,
     <<8182, <<937, 834>>>>, <<8183, <<937, 834, 921>>>>, <<8188, <<937, 921>>>>,
     <<64256, <<70, 70>>>>, <<64257, <<70, 73>>>>, <<64258, <<70, 76>>>>,
     <<64259, <<70, 70, 73>>>>, <<64260, <<70, 70, 76>>>>, <<64261, <<83, 84>>>>,
     <<64262, <<83, 84>>>>, <<64275, <<1348, 1350>>>>, <<64276, <<1348, 1333>>>>,
     <<64277, <<1348, 1339>>>>, <<64278, <<1358, 1350>>>>, <<64279, <<1348, 1341>>>>}

\* str.upper() of one character
UpperOf(c) ==
    IF c < 128 THEN (IF IsLower(c) THEN <<c - 32>> ELSE <<c>>)
    ELSE IF \E r \in UPPER_RUNS : c >= r[1] /\ c <= r[2] /\ (c - r[1]) % r[3] = 0
    THEN <<c + (CHOOSE r \in UPPER_RUNS : c >= r[1] /\ c <= r[2] /\ (c - r[1]) % r[3] = 0)[4]>>
    ELSE IF \E q \in UPPER_SPECIAL : q[1] = c
    THEN (CHOOSE q \in UPPER_SPECIAL : q[1] = c)[2]
    ELSE <<c>>

(***************************************************************************)
(* Leftmost match                                                          *)
(***************************************************************************)
\* the least element of a non-empty set of numbers
Least(S) == CHOOSE m \in S : \A n \in S : m <= n

\* first element of a sequence of candidates that is not 0, else 0; with q the
\* outcome of a pattern at every start position, this is the leftmost match
\* re.search returns
FirstNonZero(q) ==
    IF \A i \in 1..Len(q) : q[i] = 0 THEN 0
    ELSE q[Least({i \in 1..Len(q) : q[i] # 0})]

(***************************************************************************)
(* normalize_text                                                          *)
(***************************************************************************)
\* re.sub(r"[^\x20-\x7E]", " ", text)
ReplaceNonPrintable(s) ==
    [i \in 1..Len(s) |-> IF IsPrintable(s[i]) THEN s[i] ELSE SP]

\* number of whitespace characters starting at position i
RECURSIVE SpaceRun(_, _)
SpaceRun(s, i) ==
    IF i <= Len(s) /\ IsSpace(s[i]) THEN 1 + SpaceRun(s, i + 1) ELSE 0

\* the start of the leftmost match of \s+ at or after position i, else 0
NextSpace(s, i) ==
    FirstNonZero([j \in 1..Len(s) |-> IF j >= i /\ IsSpace(s[j]) THEN j ELSE 0])

\* re.sub(r"\s+", " ", text) from position i on: the text before the next
\* match m is copied, the whole run at m becomes one space, and the scan goes
\* on behind the run; m = 0 stands for no further match
RECURSIVE CollapseFrom(_, _)
CollapseAt(s, i, m) ==
    IF m = 0 THEN SubSeq(s, i, Len(s))
    ELSE SubSeq(s, i, m - 1) \o <<SP>> \o CollapseFrom(s, m + SpaceRun(s, m))

CollapseFrom(s, i) == CollapseAt(s, i, NextSpace(s, i))

CollapseSpaces(s) == CollapseFrom(s, 1)

\* (\d)\s+(\d) at position j: j when it matches there, else 0
DigitGapAt(s, j) ==
    IF /\ IsDigit(s[j])
       /\ SpaceRun(s, j + 1) >= 1
       /\ j + 1 + SpaceRun(s, j + 1) <= Len(s)
       /\ IsDigit(s[j + 1 + SpaceRun(s, j + 1)])
    THEN j ELSE 0

\* the start of the leftmost match of (\d)\s+(\d) at or after position i, else 0
NextDigitGap(s, i) ==
    FirstNonZero([j \in 1..Len(s) |-> IF j >= i THEN DigitGapAt(s, j) ELSE 0])

\* re.sub(r"(\d)\s+(\d)", r"\1\2", text) from position i on: one left-to-right
\* pass over non-overlapping matches. The text up to the digit at the next
\* match m is copied, then the digit that closes the match, and the scan goes
\* on behind that digit: it is consumed by the match and cannot open the
\* next one. m = 0 stands for no further match
RECURSIVE JoinFrom(_, _)
JoinAt(s, i, m) ==
    IF m = 0 THEN SubSeq(s, i, Len(s))
    ELSE SubSeq(s, i, m) \o <<s[m + 1 + SpaceRun(s, m + 1)]>>
         \o JoinFrom(s, m + 2 + SpaceRun(s, m + 1))

JoinFrom(s, i) == JoinAt(s, i, NextDigitGap(s, i))

\* number of non-digit characters starting at position i
RECURSIVE NonDigitRun(_, _)
NonDigitRun(s, i) ==
    IF i <= Len(s) /\ ~IsDigit(s[i]) THEN 1 + NonDigitRun(s, i + 1) ELSE 0

\* the pass with \D+ in place of \s+
RECURSIVE JoinAcrossAnyFrom(_, _)
JoinAcrossAnyFrom(s, i) ==
    IF i > Len(s) THEN <<>>
    ELSE LET k == NonDigitRun(s, i + 1)
             j == i + 1 + k
         IN IF IsDigit(s[i]) /\ k >= 1 /\ j <= Len(s) /\ IsDigit(s[j])
            THEN <<s[i], s[j]>> \o JoinAcrossAnyFrom(s, j + 1)
            ELSE <<s[i]>> \o JoinAcrossAnyFrom(s, i + 1)

JoinDigitsAcrossAny(s) == JoinAcrossAnyFrom(s, 1)

JoinDigits(s) == JoinFrom(s, 1)

\* str.strip()
RECURSIVE LStrip(_)
LStrip(s) == IF s # <<>> /\ IsSpace(Head(s)) THEN LStrip(Tail(s)) ELSE s

RECURSIVE RStrip(_)
RStrip(s) ==
    IF s # <<>> /\ IsSpace(s[Len(s)]) THEN RStrip(SubSeq(s, 1, Len(s) - 1)) ELSE s

Strip(s) == LStrip(RStrip(s))

normalize_text_nostrip(s) == JoinDigits(CollapseSpaces(ReplaceNonPrintable(s)))

normalize_text(s) == Strip(JoinDigits(CollapseSpaces(ReplaceNonPrintable(s))))

(***************************************************************************)
(* is_valid_upc_ean                                                        *)
(***************************************************************************)
\* a string of ASCII digits, not empty
IsDigitString(s) == s # <<>> /\ \A i \in 1..Len(s) : IsDigit(s[i])

\* code.isdigit(): not empty and every character is a digit for str.isdigit
isdigit(s) == s # <<>> /\ \A i \in 1..Len(s) : IsPyDigit(s[i])

\* list(map(int, code)) raises ValueError on a character int() rejects
IntRaises(s) == \E i \in 1..Len(s) : ~IsDecimal(s[i])

\* sum(digits[i] * 3 if i % 2 == par else digits[i] for i in range(n)),
\* i is the 0-based index; the model's sequences are 1-based.
RECURSIVE WeightedSum(_, _, _)
WeightedSum(digits, n, par) ==
    IF n = 0 THEN 0
    ELSE LET i == n - 1
             d == IntOf(digits[n])
         IN (IF i % 2 = par THEN d * 3 ELSE d) + WeightedSum(digits, n - 1, par)

is_valid_upc_ean_swapped(s) ==
    IF ~isdigit(s) THEN FALSE
    ELSE LET check == IntOf(s[Len(s)])
         IN IF Len(s) = 12
            THEN (10 - (WeightedSum(s, 11, 1) % 10)) % 10 = check
            ELSE IF Len(s) = 13
            THEN (10 - (WeightedSum(s, 12, 0) % 10)) % 10 = check
            ELSE FALSE

\* the exception is_valid_upc_ean(code) ends with, "" when it returns
is_valid_upc_ean_raises(s) ==
    IF isdigit(s) /\ IntRaises(s) THEN "ValueError" ELSE ""

\* the value is_valid_upc_ean(code) returns, when it returns
is_valid_upc_ean(s) ==
    IF ~isdigit(s) THEN FALSE
    ELSE LET check == IntOf(s[Len(s)])
         IN IF Len(s) = 12
            THEN (10 - (WeightedSum(s, 11, 0) % 10)) % 10 = check
            ELSE IF Len(s) = 13
            THEN (10 - (WeightedSum(s, 12, 1) % 10)) % 10 = check
            ELSE FALSE

(***************************************************************************)
(* Regular-expression helpers                                              *)
(***************************************************************************)
\* the literal lit stands at position i of s
LitAt(s, i, lit) ==
    /\ i >= 1
    /\ i + Len(lit) - 1 <= Len(s)
    /\ \A j \in 1..Len(lit) : s[i + j - 1] = lit[j]

\* the same under re.IGNORECASE; lit is written in upper case
LitAtNoCase(s, i, lit) ==
    /\ i >= 1
    /\ i + Len(lit) - 1 <= Len(s)
    /\ \A j \in 1..Len(lit) : ToUpper(s[i + j - 1]) = lit[j]

\* \b between positions i - 1 and i
WordAt(s, i) == i >= 1 /\ i <= Len(s) /\ IsWord(s[i])
Boundary(s, i) == WordAt(s, i - 1) # WordAt(s, i)

\* number of digits starting at position i
RECURSIVE DigitRun(_, _)
DigitRun(s, i) ==
    IF i >= 1 /\ i <= Len(s) /\ IsDigit(s[i]) THEN 1 + DigitRun(s, i + 1) ELSE 0

\* number of characters of [0-9\s] starting at position i
RECURSIVE DigitOrSpaceRun(_, _)
DigitOrSpaceRun(s, i) ==
    IF i >= 1 /\ i <= Len(s) /\ (IsDigit(s[i]) \/ IsSpace(s[i]))
    THEN 1 + DigitOrSpaceRun(s, i + 1) ELSE 0

\* re.sub(r"\s+", "", s)
RECURSIVE RemoveSpaces(_)
RemoveSpaces(s) ==
    IF s = <<>> THEN <<>>
    ELSE IF IsSpace(Head(s)) THEN RemoveSpaces(Tail(s))
         ELSE <<Head(s)>> \o RemoveSpaces(Tail(s))

\* (\d+) matched at position p of s; p = 0 stands for no match
DigitsAt(s, p) == IF p = 0 THEN <<>> ELSE SubSeq(s, p, p + DigitRun(s, p) - 1)

Min(a, b) == IF a < b THEN a ELSE b

(***************************************************************************)
(* extract_upc_candidate, extract_valid_upc                                *)
(***************************************************************************)
L_EAN_UPC == <<69, 65, 78, 47, 85, 80, 67>>
L_EANUPC == <<69, 65, 78, 85, 80, 67>>
L_EAN == <<69, 65, 78>>
L_UPC == <<85, 80, 67>>

\* ([0-9][0-9\s]{10,15}) at position p: its length, 0 when it does not match
UpcGroupLen(s, p) ==
    IF p >= 1 /\ p <= Len(s) /\ IsDigit(s[p]) /\ DigitOrSpaceRun(s, p + 1) >= 10
    THEN 1 + Min(DigitOrSpaceRun(s, p + 1), 15)
    ELSE 0

\* the group tried at position q: q when it matches there, else 0
UpcGroupAt(s, q) == IF UpcGroupLen(s, q) > 0 THEN q ELSE 0

\* one alternative of (?:EAN\/?UPC|EAN|UPC)? at position i, then \s*, then
\* the group: the position of group 1, else 0. \s* is followed by a digit, so
\* it takes the whole run of whitespace or the group cannot start
UpcAfterLabel(s, i, lit) ==
    IF LitAtNoCase(s, i, lit)
    THEN UpcGroupAt(s, i + Len(lit) + SpaceRun(s, i + Len(lit)))
    ELSE 0

\* the whole pattern tried at start position i: the position of group 1 for
\* the first label alternative that lets the rest match (the skipped label
\* comes last), else 0
UpcMatchAt(s, i) ==
    FirstNonZero(<< UpcAfterLabel(s, i, L_EAN_UPC), UpcAfterLabel(s, i, L_EANUPC),
                    UpcAfterLabel(s, i, L_EAN), UpcAfterLabel(s, i, L_UPC),
                    UpcAfterLabel(s, i, <<>>) >>)

\* re.search: group 1 of the match at the leftmost start position
UpcSearch(s) == FirstNonZero([i \in 1..Len(s) |-> UpcMatchAt(s, i)])

\* the mutant that returns whatever digit string the pattern found
CandidateDigitsAnyLen(digits) == digits

\* return digits if len(digits) in (12, 13) else ""
CandidateDigits(digits) == IF Len(digits) \in {12, 13} THEN digits ELSE <<>>

\* the match at position p of the normalized text s (0: no match)
CandidateAt(s, p) ==
    IF p = 0 THEN <<>>
    ELSE CandidateDigits(RemoveSpaces(SubSeq(s, p, p + UpcGroupLen(s, p) - 1)))

\* the search in the normalized text s
CandidateIn(s) == CandidateAt(s, UpcSearch(s))

extract_upc_candidate(t) == CandidateIn(normalize_text(t))

\* return candidate if is_valid_upc_ean(candidate) else ""
ValidCandidate(candidate) ==
    IF candidate = <<>> THEN <<>>
    ELSE IF is_valid_upc_ean(candidate) THEN candidate ELSE <<>>

extract_valid_upc(t) == ValidCandidate(extract_upc_candidate(t))

(***************************************************************************)
(* Dictionaries: a dict is a function from the keys it holds               *)
(***************************************************************************)
EmptyDict == [k \in {} |-> <<>>]

Put(d, key, v) == [k \in (DOMAIN d) \cup {key} |-> IF k = key THEN v ELSE d[k]]

\* d[key] = v only when the condition holds (the "if value: info[key] = value")
PutIf(d, cond, key, v) == IF cond THEN Put(d, key, v) ELSE d

\* dict.get(key): None is modelled by the value None
None == <<-1>>
Get(d, key) == IF key \in DOMAIN d THEN d[key] ELSE None

(***************************************************************************)
(* Care-label field extractor (backend/app/extractors/carelabel.py)        *)
(***************************************************************************)
\* the alternation (XXXL|XXL|XL|L|M|S|XS), in its order
SIZE_TOKENS ==
    << <<88, 88, 88, 76>>, <<88, 88, 76>>, <<88, 76>>, <<76>>, <<77>>, <<83>>, <<88, 83>> >>

\* \b(XXXL|XXL|XL|L|M|S|XS)\b at position i: the index of the first
\* alternative that matches there, else 0
SizeTokenAt(s, i) ==
    FirstNonZero([k \in 1..Len(SIZE_TOKENS) |->
        IF /\ Boundary(s, i)
           /\ LitAt(s, i, SIZE_TOKENS[k])
           /\ Boundary(s, i + Len(SIZE_TOKENS[k]))
        THEN k ELSE 0])

\* re.search: the token of the leftmost match
SizeSearch(s) == FirstNonZero([i \in 1..Len(s) |-> SizeTokenAt(s, i)])

\* position of the first c at or after position i, 0 when there is none
IndexOf(s, c, i) ==
    FirstNonZero([j \in 1..Len(s) |-> IF j >= i /\ s[j] = c THEN j ELSE 0])

\* tok\s*\(([^)]+)\) tried at position i: <<from, to>> of group 1, else <<0, 0>>
ParenAfterAt(s, i, tok) ==
    LET p == i + Len(tok) + SpaceRun(s, i + Len(tok))
        q == IndexOf(s, 41, p + 1)
    IN IF LitAt(s, i, tok) /\ p <= Len(s) /\ s[p] = 40 /\ q > p + 1
       THEN <<p + 1, q - 1>> ELSE <<0, 0>>

\* the group <<from, to>> as text; <<0, 0>> stands for no match
ParenGroup(s, g) == IF g[1] = 0 THEN <<>> ELSE SubSeq(s, g[1], g[2])

\* re.search(rf"{size}\s*\(([^)]+)\)", normalized): searched from the start of
\* the text, not from the place the size token was found
ParenAfterSearch(s, tok) ==
    ParenGroup(s, ParenAfterAt(s,
        FirstNonZero([i \in 1..Len(s) |-> IF ParenAfterAt(s, i, tok)[1] # 0 THEN i ELSE 0]),
        tok))

\* \d{1,2}\s*-\s*\d{1,2} at position i with a first and b last digits,
\* followed by \b: the length of the match, else 0
NumericRangeLen(s, i, a, b) ==
    LET j == i + a + SpaceRun(s, i + a)
        m == j + 1 + SpaceRun(s, j + 1)
    IN IF /\ DigitRun(s, i) >= a
          /\ j <= Len(s) /\ s[j] = 45
          /\ DigitRun(s, m) >= b
          /\ Boundary(s, m + b)
       THEN m + b - i ELSE 0

\* \d{1,2} at position i with a digits, followed by \b
NumericSingleLen(s, i, a) ==
    IF DigitRun(s, i) >= a /\ Boundary(s, i + a) THEN a ELSE 0

\* \b(\d{1,2}\s*-\s*\d{1,2}|\d{1,2})\b at position i: the length of the match
\* the backtracking matcher finds first, else 0
NumericTokenLen(s, i) ==
    IF ~Boundary(s, i) THEN 0
    ELSE FirstNonZero(<< NumericRangeLen(s, i, 2, 2), NumericRangeLen(s, i, 2, 1),
                         NumericRangeLen(s, i, 1, 2), NumericRangeLen(s, i, 1, 1),
                         NumericSingleLen(s, i, 2), NumericSingleLen(s, i, 1) >>)

\* re.search: the position of the leftmost match, 0 when there is none
NumericSearch(s) ==
    FirstNonZero([i \in 1..Len(s) |-> IF NumericTokenLen(s, i) # 0 THEN i ELSE 0])

\* the mutant that keeps the blanks of the numeric token
KeepBlanks(s) == s

\* str.replace(" ", "")
RECURSIVE RemoveBlanks(_)
RemoveBlanks(s) ==
    IF s = <<>> THEN <<>>
    ELSE IF Head(s) = SP THEN RemoveBlanks(Tail(s))
         ELSE <<Head(s)>> \o RemoveBlanks(Tail(s))

\* range_map.get(size_range, "")
range_map(r) ==
    CASE r = <<48, 45, 50>> -> <<88, 83>>
      [] r = <<52, 45, 54>> -> <<83>>
      [] r = <<56, 45, 49, 48>> -> <<77>>
      [] r = <<49, 50, 45, 49, 52>> -> <<76>>
      [] r = <<49, 54, 45, 49, 56>> -> <<88, 76>>
      [] r = <<50, 48>> -> <<88, 88, 76>>
      [] r = <<50, 50>> -> <<88, 88, 88, 76>>
      [] OTHER -> <<>>

\* the second branch of _extract_size: size_range is the numeric token
\* without blanks, size its entry in range_map
SizeOfRange(size_range) == <<range_map(size_range), size_range>>

\* the numeric token matched at position i of s (0: no match)
SizeOfNumericAt(s, i) ==
    IF i = 0 THEN << <<>>, <<>> >>
    ELSE SizeOfRange(RemoveBlanks(SubSeq(s, i, i + NumericTokenLen(s, i) - 1)))

\* the size token of index k found in s (0: none found)
SizeOfToken(s, k) ==
    IF k # 0
    THEN <<SIZE_TOKENS[k], ParenAfterSearch(s, SIZE_TOKENS[k])>>
    ELSE SizeOfNumericAt(s, NumericSearch(s))

\* _extract_size(normalized) = <<size, size_range>>
_extract_size(s) == SizeOfToken(s, SizeSearch(s))

\* RN#?\s*(\d+) (hash optional) or RN#\s*(\d+) (hash required) at position i:
\* the position of group 1, else 0
RnGroupAt(s, i, hashRequired) ==
    LET h == IF i + 2 <= Len(s) /\ s[i + 2] = 35 THEN 1 ELSE 0
        p == i + 2 + h + SpaceRun(s, i + 2 + h)
    IN IF LitAt(s, i, <<82, 78>>) /\ (hashRequired => h = 1) /\ DigitRun(s, p) >= 1
       THEN p ELSE 0

\* re.search: group 1 of the leftmost match, "" when there is none
RnSearch(s, hashRequired) ==
    DigitsAt(s, FirstNonZero([i \in 1..Len(s) |-> RnGroupAt(s, i, hashRequired)]))

\* number of characters of [A-Z0-9] starting at position i
RECURSIVE UpperAlnumRun(_, _)
UpperAlnumRun(s, i) ==
    IF i >= 1 /\ i <= Len(s) /\ (IsUpper(s[i]) \/ IsDigit(s[i]))
    THEN 1 + UpperAlnumRun(s, i + 1) ELSE 0

\* \b(AV[A-Z0-9]+)\b at position i: the length of the match, else 0. Every
\* character of the run is a word character, so the closing \b can only
\* stand at the end of the whole run
CareStyleLenAt(s, i) ==
    IF /\ Boundary(s, i) /\ LitAt(s, i, <<65, 86>>)
       /\ UpperAlnumRun(s, i + 2) >= 1
       /\ Boundary(s, i + 2 + UpperAlnumRun(s, i + 2))
    THEN 2 + UpperAlnumRun(s, i + 2) ELSE 0

\* the match at position i; i = 0 stands for no match
CareStyleAt(s, i) == IF i = 0 THEN <<>> ELSE SubSeq(s, i, i + CareStyleLenAt(s, i) - 1)

\* re.search: group 1 of the leftmost match, "" when there is none
CareStyleSearch(s) ==
    CareStyleAt(s, FirstNonZero([i \in 1..Len(s) |->
                                    IF CareStyleLenAt(s, i) # 0 THEN i ELSE 0]))

IsLetter(c) == IsUpper(c) \/ IsLower(c)

\* number of characters of [A-Za-z ] starting at position i, under
\* re.IGNORECASE: the class then holds the four characters matched as letters
RECURSIVE LetterOrBlankRun(_, _)
LetterOrBlankRun(s, i) ==
    IF i >= 1 /\ i <= Len(s) /\ (IsUpper(ToUpper(s[i])) \/ s[i] = SP)
    THEN 1 + LetterOrBlankRun(s, i + 1) ELSE 0

\* \s+ is greedy and gives characters back until [A-Za-z ]+ can start: the
\* largest w in 1..r whose following character is a letter or a blank, else 0
RECURSIVE CountryGap(_, _, _)
CountryGap(s, base, w) ==
    IF w = 0 THEN 0
    ELSE IF LetterOrBlankRun(s, base + w) >= 1 THEN w
         ELSE CountryGap(s, base, w - 1)

\* (?:Made In|Hecho En)\s+([A-Za-z ]+) at position i, re.IGNORECASE:
\* the position of group 1, else 0
CountryGroupAt(s, i) ==
    LET n == IF LitAtNoCase(s, i, <<77, 65, 68, 69, 32, 73, 78>>) THEN 7
             ELSE IF LitAtNoCase(s, i, <<72, 69, 67, 72, 79, 32, 69, 78>>) THEN 8
             ELSE 0
        w == CountryGap(s, i + n, SpaceRun(s, i + n))
    IN IF n # 0 /\ w # 0 THEN i + n + w ELSE 0

\* match.group(1).strip() for the group at position p; p = 0 stands for no match
CountryAt(s, p) ==
    IF p = 0 THEN <<>> ELSE Strip(SubSeq(s, p, p + LetterOrBlankRun(s, p) - 1))

\* _extract_country(text)
_extract_country(t) ==
    CountryAt(t, FirstNonZero([i \in 1..Len(t) |-> CountryGroupAt(t, i)]))

\* number of characters of [A-Za-z\s/&-] starting at position i
RECURSIVE MaterialRun(_, _)
MaterialRun(s, i) ==
    IF i >= 1 /\ i <= Len(s) /\ (IsLetter(s[i]) \/ IsSpace(s[i]) \/ s[i] \in {47, 38, 45})
    THEN 1 + MaterialRun(s, i + 1) ELSE 0

\* number of characters of \d starting at position i of a text that was not
\* normalized: the decimal digits of every script
RECURSIVE DecimalRun(_, _)
DecimalRun(s, i) ==
    IF i >= 1 /\ i <= Len(s) /\ IsDecimal(s[i]) THEN 1 + DecimalRun(s, i + 1) ELSE 0

\* int() of a digit string
RECURSIVE DecimalValue(_)
DecimalValue(d) ==
    IF d = <<>> THEN 0
    ELSE 10 * DecimalValue(SubSeq(d, 1, Len(d) - 1)) + IntOf(d[Len(d)])

\* str.strip(" .;/")
RECURSIVE StripChars(_, _)
StripChars(s, C) ==
    IF s # <<>> /\ s[1] \in C THEN StripChars(Tail(s), C)
    ELSE IF s # <<>> /\ s[Len(s)] \in C THEN StripChars(SubSeq(s, 1, Len(s) - 1), C)
    ELSE s

\* " ".join(group.split()).strip(" .;/")
MaterialOf(g) == StripChars(Strip(CollapseSpaces(g)), {32, 46, 59, 47})

\* (\d{1,3})%\s*([A-Za-z][A-Za-z\s/&-]+) at position i: the position of
\* group 2, else 0; \d{1,3} must end at the percent sign
CompositionGroupAt(s, i) ==
    LET a == DecimalRun(s, i)
        p == i + a + 1 + SpaceRun(s, i + a + 1)
    IN IF /\ a >= 1 /\ a <= 3
          /\ i + a <= Len(s) /\ s[i + a] = 37
          /\ p <= Len(s) /\ IsLetter(s[p])
          /\ MaterialRun(s, p + 1) >= 1
       THEN p ELSE 0

\* the start of the leftmost match at or after position i, 0 when there is none
NextComposition(s, i) ==
    FirstNonZero([j \in 1..Len(s) |->
                     IF j >= i /\ CompositionGroupAt(s, j) # 0 THEN j ELSE 0])

\* the last position of group 2 when it starts at position p
CompositionEnd(s, p) == p + MaterialRun(s, p + 1)

\* if material: compositions.append({"percent": pct, "material": material})
CompositionEntry(pct, material) ==
    IF material # <<>> THEN << [percent |-> pct, material |-> material] >> ELSE <<>>

\* re.finditer: non-overlapping matches from left to right; i is the start of
\* a match and p the start of its group 2, i = 0 stands for no further match
RECURSIVE CompositionsAt(_, _)
CompositionMatch(s, i, p) ==
    CompositionEntry(DecimalValue(SubSeq(s, i, i + DecimalRun(s, i) - 1)),
                     MaterialOf(SubSeq(s, p, CompositionEnd(s, p))))
    \o CompositionsAt(s, NextComposition(s, CompositionEnd(s, p) + 1))

CompositionsAt(s, i) ==
    IF i = 0 THEN <<>> ELSE CompositionMatch(s, i, CompositionGroupAt(s, i))

\* _extract_composition(text)
_extract_composition(t) == CompositionsAt(t, NextComposition(t, 1))

\* re.search(r"Exclusive of Decoration", text, re.IGNORECASE)
HasExclusive(t) ==
    \E i \in 1..Len(t) :
        LitAtNoCase(t, i, <<69, 88, 67, 76, 85, 83, 73, 86, 69, 32, 79, 70, 32,
                            68, 69, 67, 79, 82, 65, 84, 73, 79, 78>>)

\* the mutant without the else: the candidate is recorded beside a valid upc
CareUpcFieldsNoElse(info, upc, candidate) ==
    PutIf(PutIf(info, upc # <<>>, "upc", upc), candidate # <<>>, "upc_candidate", candidate)

\* extract_care_label_info, the upc / upc_candidate slot: upc is the result
\* of extract_valid_upc, candidate that of extract_upc_candidate
CareUpcFields(info, upc, candidate) ==
    IF upc # <<>> THEN Put(info, "upc", upc)
    ELSE PutIf(info, candidate # <<>>, "upc_candidate", candidate)

\* the assignments to info, in their order
CareFields(sz, rn, upc, candidate, country, compositions, exclusive, style) ==
    PutIf(
      PutIf(
        PutIf(
          PutIf(
            CareUpcFields(
              PutIf(
                PutIf(
                  PutIf(EmptyDict, sz[1] # <<>>, "size", sz[1]),
                  sz[2] # <<>>, "size_range", sz[2]),
                rn # <<>>, "rn_number", rn),
              upc, candidate),
            country # <<>>, "country_of_origin", country),
          compositions # <<>>, "composition", compositions),
        exclusive, "exclusive_of_decoration", TRUE),
      style # <<>>, "style_number", style)

\* the searches, in the normalized text s and in the raw text t
CareSearches(t, s) ==
    CareFields(_extract_size(s), RnSearch(s, FALSE),
               extract_valid_upc(s), extract_upc_candidate(s),
               _extract_country(t), _extract_composition(t), HasExclusive(t),
               CareStyleSearch(s))

\* extract_care_label_info(text)
extract_care_label_info(t) == CareSearches(t, normalize_text(t))

(***************************************************************************)
(* Hang-tag field extractor (upc-validator/backend/app/extractors/rfid.py) *)
(***************************************************************************)
\* a tag image is modelled by what the barcode decoder reads from it: a
\* sequence of payloads, each decodable as UTF-8 or not; tag_image=None is
\* the image that is not present
Payload(ok, data) == [ok |-> ok, data |-> data]
Image(decoded) == [present |-> TRUE, decoded |-> decoded]
NoImage == [present |-> FALSE, decoded |-> <<>>]

\* _decode_barcodes(image); zbar is FALSE when pyzbar could not be imported
RECURSIVE DecodeValues(_)
DecodeValues(decoded) ==
    IF decoded = <<>> THEN <<>>
    ELSE LET item == Head(decoded)
         IN (IF item.ok /\ Strip(item.data) # <<>> THEN <<Strip(item.data)>> ELSE <<>>)
            \o DecodeValues(Tail(decoded))

_decode_barcodes(zbar, image) == IF ~zbar THEN <<>> ELSE DecodeValues(image.decoded)

\* \b(XXXL|XXL|XL|L|M|S|XS)\b\s*\(([^)]+)\) at position i: the index of the
\* first alternative for which the whole pattern matches, else 0
TagSizeAt(s, i) ==
    FirstNonZero([k \in 1..Len(SIZE_TOKENS) |->
        IF /\ Boundary(s, i)
           /\ Boundary(s, i + Len(SIZE_TOKENS[k]))
           /\ ParenAfterAt(s, i, SIZE_TOKENS[k])[1] # 0
        THEN k ELSE 0])

\* <<size, size_range>> of the match of alternative k at position i; k = 0
\* stands for no match
TagSizeMatch(s, i, k) ==
    IF k = 0 THEN << <<>>, <<>> >>
    ELSE <<SIZE_TOKENS[k], ParenGroup(s, ParenAfterAt(s, i, SIZE_TOKENS[k]))>>

TagSizeFound(s, i) == TagSizeMatch(s, i, TagSizeAt(s, i))

\* re.search: <<size, size_range>> of the leftmost match, << <<>>, <<>> >>
\* without one
TagSizeSearch(s) ==
    TagSizeFound(s, FirstNonZero([i \in 1..Len(s) |-> IF TagSizeAt(s, i) # 0 THEN i ELSE 0]))

\* first\s+second at position i, re.IGNORECASE: the length of the match, else 0
TwoWordsLen(s, i, first, second) ==
    LET r == SpaceRun(s, i + Len(first))
    IN IF /\ LitAtNoCase(s, i, first) /\ r >= 1
          /\ LitAtNoCase(s, i + Len(first) + r, second)
       THEN Len(first) + r + Len(second) ELSE 0

\* (BLACK\s+SOOT|SALSA\s+DELIGHT) at position i
ColorLen(s, i) ==
    FirstNonZero(<< TwoWordsLen(s, i, <<66, 76, 65, 67, 75>>, <<83, 79, 79, 84>>),
                    TwoWordsLen(s, i, <<83, 65, 76, 83, 65>>, <<68, 69, 76, 73, 71, 72, 84>>) >>)

\* str.replace("  ", " ")
RECURSIVE ReplaceDoubleBlank(_)
ReplaceDoubleBlank(s) ==
    IF Len(s) < 2 THEN s
    ELSE IF s[1] = SP /\ s[2] = SP THEN <<SP>> \o ReplaceDoubleBlank(SubSeq(s, 3, Len(s)))
         ELSE <<s[1]>> \o ReplaceDoubleBlank(Tail(s))

RECURSIVE Upper(_)
Upper(s) == IF s = <<>> THEN <<>> ELSE UpperOf(Head(s)) \o Upper(Tail(s))

\* match.group(1).upper().replace("  ", " ") for the match at position i;
\* i = 0 stands for no match
ColorAt(s, i) ==
    IF i = 0 THEN <<>> ELSE ReplaceDoubleBlank(Upper(SubSeq(s, i, i + ColorLen(s, i) - 1)))

\* re.search: the color of the leftmost match, "" when there is none
ColorSearch(s) ==
    ColorAt(s, FirstNonZero([i \in 1..Len(s) |-> IF ColorLen(s, i) # 0 THEN i ELSE 0]))

\* (BLACK\s+SOOT|SALSA\s+DELIGHT)\s+(\d+) at position i: the position of
\* group 2, else 0
ColorCodeGroupAt(s, i) ==
    LET e == i + ColorLen(s, i)
        p == e + SpaceRun(s, e)
    IN IF ColorLen(s, i) # 0 /\ p > e /\ DigitRun(s, p) >= 1 THEN p ELSE 0

\* re.search: group 2 of the leftmost match, "" when there is none
ColorCodeSearch(s) ==
    DigitsAt(s, FirstNonZero([i \in 1..Len(s) |-> ColorCodeGroupAt(s, i)]))

RECURSIVE UpperRun(_, _)
UpperRun(s, i) ==
    IF i >= 1 /\ i <= Len(s) /\ IsUpper(s[i]) THEN 1 + UpperRun(s, i + 1) ELSE 0

\* (AV\d+[A-Z]+\d+) at position i: the length of the match, else 0
TagStyleLenAt(s, i) ==
    LET d1 == DigitRun(s, i + 2)
        u == UpperRun(s, i + 2 + d1)
        d2 == DigitRun(s, i + 2 + d1 + u)
    IN IF LitAt(s, i, <<65, 86>>) /\ d1 >= 1 /\ u >= 1 /\ d2 >= 1
       THEN 2 + d1 + u + d2 ELSE 0

\* the match at position i; i = 0 stands for no match
TagStyleAt(s, i) == IF i = 0 THEN <<>> ELSE SubSeq(s, i, i + TagStyleLenAt(s, i) - 1)

\* re.search: group 1 of the leftmost match, "" when there is none
TagStyleSearch(s) ==
    TagStyleAt(s, FirstNonZero([i \in 1..Len(s) |-> IF TagStyleLenAt(s, i) # 0 THEN i ELSE 0]))

\* extract_tag_info, the upc / upc_candidate slot: upc is the result of
\* extract_valid_upc, candidate that of extract_upc_candidate
TagUpcFields(info, upc, candidate) ==
    IF upc # <<>> THEN Put(info, "upc", upc)
    ELSE PutIf(info, candidate # <<>>, "upc_candidate", candidate)

\* if tag_image is not None: barcodes = _decode_barcodes(tag_image)
TagBarcodes(zbar, image) ==
    IF ~image.present THEN <<>> ELSE _decode_barcodes(zbar, image)

\* if barcodes: info["barcode"] = barcodes[0]
TagBarcodeField(info, barcodes) ==
    IF barcodes # <<>> THEN Put(info, "barcode", barcodes[1]) ELSE info

\* the assignments to info, in their order; size and size_range come from
\* one match and are set together
TagFields(sz, upc, candidate, barcodes, color, color_code, style, rn) ==
    PutIf(
      PutIf(
        PutIf(
          PutIf(
            TagBarcodeField(
              TagUpcFields(
                PutIf(
                  PutIf(EmptyDict, sz[1] # <<>>, "size", sz[1]),
                  sz[1] # <<>>, "size_range", sz[2]),
                upc, candidate),
              barcodes),
            color # <<>>, "color", color),
          color_code # <<>>, "color_code", color_code),
        style # <<>>, "style_number", style),
      rn # <<>>, "rn_number", rn)

\* the searches in the normalized text s
TagSearches(s, zbar, image) ==
    TagFields(TagSizeSearch(s), extract_valid_upc(s), extract_upc_candidate(s),
              TagBarcodes(zbar, image), ColorSearch(s), ColorCodeSearch(s),
              TagStyleSearch(s), RnSearch(s, TRUE))

\* extract_tag_info(text, tag_image); tag_image is None or an image
extract_tag_info(t, zbar, image) == TagSearches(normalize_text(t), zbar, image)

(***************************************************************************)
(* Reconciliation engine (upc-validator/backend/app/validation.py)         *)
(***************************************************************************)
\* _normalize_value(value): None gives "", else strip, collapse whitespace
\* runs to one space, upper-case
_normalize_value(value) ==
    IF value = None THEN <<>> ELSE Upper(CollapseSpaces(Strip(value)))

\* re.sub(r"\D", "", s)
RECURSIVE RemoveNonDigits(_)
RemoveNonDigits(s) ==
    IF s = <<>> THEN <<>>
    ELSE IF IsDecimal(Head(s)) THEN <<Head(s)>> \o RemoveNonDigits(Tail(s))
         ELSE RemoveNonDigits(Tail(s))

\* _normalize_upc(value)
_normalize_upc(value) == IF value = None THEN <<>> ELSE RemoveNonDigits(value)

\* the matched item of a row that matched nothing (Python's None)
NoneItem == [none |-> TRUE]

\* A list of dicts as the interpreter holds it: one dict object per position.
\* An object is its address, here the list that holds it and its position
\* there, and its contents; two objects of equal contents are two objects.
ObjectsOf(name, items) ==
    [j \in 1..Len(items) |-> [at |-> <<name, j>>, value |-> items[j]]]

\* dict(item): a new object of the same contents
CopyOf(item) == [at |-> <<"copy", 0>>, value |-> item.value]

\* normalize_item(item): a new dict, read from the item
normalize_item(item) ==
    [style |-> _normalize_value(Get(item.value, "style_number")),
     size |-> _normalize_value(Get(item.value, "size")),
     color |-> _normalize_value(Get(item.value, "color"))]

\* the tests of the four loops of _match_item, in their order
MATCH_LEVELS == <<"style+size+color", "style+size", "style+color", "style">>

\* the mutant whose tests do not ask for a non-empty style
LevelTestNoGuard(norm, level, style, size, color) ==
    CASE level = "style+size+color" ->
             norm.style = style /\ norm.size = size /\ norm.color = color
      [] level = "style+size" -> norm.style = style /\ norm.size = size
      [] level = "style+color" -> norm.style = style /\ norm.color = color
      [] level = "style" -> norm.style = style

LevelTest(norm, level, style, size, color) ==
    CASE level = "style+size+color" ->
             norm.style = style /\ norm.size = size /\ norm.color = color /\ style # <<>>
      [] level = "style+size" -> norm.style = style /\ norm.size = size /\ style # <<>>
      [] level = "style+color" -> norm.style = style /\ norm.color = color /\ style # <<>>
      [] level = "style" -> norm.style = style /\ style # <<>>

\* one loop of _match_item: the index of the first item that passes the test
\* of the level, 0 when the loop ends without a return
RECURSIVE LoopFrom(_, _, _, _, _, _)
LoopFrom(items, i, level, style, size, color) ==
    IF i > Len(items) THEN 0
    ELSE IF LevelTest(normalize_item(items[i]), level, style, size, color) THEN i
         ELSE LoopFrom(items, i + 1, level, style, size, color)

\* the four loops in sequence: <<index, level>> of the first return
RECURSIVE LoopsFrom(_, _, _, _, _)
LoopsFrom(items, k, style, size, color) ==
    IF k > Len(MATCH_LEVELS) THEN <<0, "none">>
    ELSE LET i == LoopFrom(items, 1, MATCH_LEVELS[k], style, size, color)
         IN IF i # 0 THEN <<i, MATCH_LEVELS[k]>>
            ELSE LoopsFrom(items, k + 1, style, size, color)

\* the best level of item i, 0 when it passes no test
BestLevelOf(item, style, size, color) ==
    FirstNonZero([k \in 1..Len(MATCH_LEVELS) |->
        IF LevelTest(normalize_item(item), MATCH_LEVELS[k], style, size, color)
        THEN k ELSE 0])

\* the mutant with a single loop: the first item that passes any test wins
RECURSIVE FirstAnyFrom(_, _, _, _, _)
FirstAnyFrom(items, i, style, size, color) ==
    IF i > Len(items) THEN <<NoneItem, "none">>
    ELSE IF BestLevelOf(items[i], style, size, color) # 0
         THEN <<items[i], MATCH_LEVELS[BestLevelOf(items[i], style, size, color)]>>
         ELSE FirstAnyFrom(items, i + 1, style, size, color)

_match_item_single_loop(items, style, size, color) ==
    FirstAnyFrom(items, 1, style, size, color)

\* _match_item(items, style, size, color) = <<item, level>>: the item is the
\* object of the list, not a copy of it
_match_item(items, style, size, color) ==
    IF items = <<>> THEN <<NoneItem, "none">>
    ELSE LET hit == LoopsFrom(items, 1, style, size, color)
         IN IF hit[1] = 0 THEN <<NoneItem, "none">> ELSE <<items[hit[1]], hit[2]>>

\* the mutant that compares without asking for non-empty codes
upc_matches_eq(expected, actual) == expected = actual

\* bool(expected and actual and expected == actual)
upc_matches(expected, actual) ==
    expected # <<>> /\ actual # <<>> /\ expected = actual

\* the mutant whose result holds dict(item), a copy of the matched item with
\* the same keys and values
SideResultCopy(items, row, style, size, color, upc_key) ==
    LET m == _match_item(items, style, size, color)
        upc_expected == _normalize_upc(Get(row, upc_key))
        upc_actual == _normalize_upc(IF m[1] # NoneItem THEN Get(m[1].value, "upc") ELSE <<>>)
    IN [match |-> m[2],
        upc_expected |-> upc_expected,
        upc_actual |-> upc_actual,
        upc_matches |-> upc_matches(upc_expected, upc_actual),
        item |-> IF m[1] = NoneItem THEN NoneItem ELSE CopyOf(m[1])]

\* one side of a result: the match of a row against a collection; "item"
\* holds the object _match_item returned
SideResult(items, row, style, size, color, upc_key) ==
    LET m == _match_item(items, style, size, color)
        upc_expected == _normalize_upc(Get(row, upc_key))
        upc_actual == _normalize_upc(IF m[1] # NoneItem THEN Get(m[1].value, "upc") ELSE <<>>)
    IN [match |-> m[2],
        upc_expected |-> upc_expected,
        upc_actual |-> upc_actual,
        upc_matches |-> upc_matches(upc_expected, upc_actual),
        item |-> m[1]]

\* the body of the loop over the rows
RowResult(row, care_labels_in, hang_tags_in) ==
    LET style == _normalize_value(Get(row, "style"))
        size == _normalize_value(Get(row, "size"))
        color == _normalize_value(Get(row, "color"))
    IN [row |-> row,
        care_label |-> SideResult(care_labels_in, row, style, size, color, "care_upc"),
        hang_tag |-> SideResult(hang_tags_in, row, style, size, color, "hang_upc")]

\* the mutant that counts a row for a side when either side matched
RECURSIVE CountMatchesEitherSide(_, _)
CountMatchesEitherSide(res, side) ==
    IF res = <<>> THEN 0
    ELSE (IF Head(res).care_label.upc_matches \/ Head(res).hang_tag.upc_matches
          THEN 1 ELSE 0) + CountMatchesEitherSide(Tail(res), side)

\* sum(1 for item in results if item[side]["upc_matches"])
RECURSIVE CountMatches(_, _)
CountMatches(res, side) ==
    IF res = <<>> THEN 0
    ELSE (IF Head(res)[side].upc_matches THEN 1 ELSE 0) + CountMatches(Tail(res), side)

\* validate_rows(rows, care_labels, hang_tags)
validate_rows(rows_in, care_labels_in, hang_tags_in) ==
    LET res == [i \in 1..Len(rows_in) |-> RowResult(rows_in[i], care_labels_in, hang_tags_in)]
    IN [summary |-> [rows |-> Len(res),
                     care_label_matches |-> CountMatches(res, "care_label"),
                     hang_tag_matches |-> CountMatches(res, "hang_tag")],
        results |-> res]

(***************************************************************************)
(* Collaborators: the renderer and the OCR engine (common.py)              *)
(***************************************************************************)
\* the outcome of a call: the value it returned, or the exception it ended with
Returned(v) == [raised |-> "", value |-> v]
Raised(e) == [raised |-> e, value |-> <<>>]

\* ocr_image(image) in the environment env: pytesseract is "absent" (the import
\* failed), "returns" env.ocr_text or "raises"; without pytesseract the result
\* depends on the tesseract binary being found (env.which), on what it prints
\* being UTF-8 (env.stdout_utf8: subprocess.run(text=True) decodes it before
\* the exit status is looked at), on its run succeeding (env.run_ok), on its
\* output file being there (env.output_file) and on that file being UTF-8
\* (env.file_utf8); only CalledProcessError and FileNotFoundError are caught
ocr_image(env) ==
    IF env.pytesseract = "returns" THEN Returned(env.ocr_text)
    ELSE IF env.pytesseract = "raises" THEN Raised("TesseractError")
    ELSE IF ~env.which THEN Returned(<<>>)
    ELSE IF ~env.stdout_utf8 THEN Raised("UnicodeDecodeError")
    ELSE IF ~env.run_ok THEN Returned(<<>>)
    ELSE IF ~env.output_file THEN Returned(<<>>)
    ELSE IF ~env.file_utf8 THEN Raised("UnicodeDecodeError")
    ELSE Returned(env.ocr_text)

\* ocr_image applied to a rendering of the page or region: page.get_pixmap /
\* Image.frombytes raise when env.render_ok is false, before the OCR runs
RenderAndOcr(env) ==
    IF ~env.render_ok THEN Raised("RuntimeError") ELSE ocr_image(env)

\* page.get_text() or "": the text the PDF engine returns, "" when it returns
\* None
PageText(got) == IF got = None THEN <<>> ELSE got

\* len(text.strip()) < 20
NeedsOcr(page_text) == Len(Strip(page_text)) < 20

(***************************************************************************)
(* Classifier (upc-validator/backend/app/extractors/classifier.py)         *)
(***************************************************************************)
\* the patterns in list order. first is the literal text in upper case (the
\* search ignores case); second, when not empty, follows first after \s+;
\* hash marks the optional '#' behind first; bounded marks the \b at both ends
care_patterns ==
    << [pattern |-> "\\bRN#?\\b", first |-> <<82, 78>>,
        second |-> <<>>, hash |-> TRUE, bounded |-> TRUE],
       [pattern |-> "\\bMade In\\b", first |-> <<77, 65, 68, 69, 32, 73, 78>>,
        second |-> <<>>, hash |-> FALSE, bounded |-> TRUE],
       [pattern |-> "\\bHecho En\\b", first |-> <<72, 69, 67, 72, 79, 32, 69, 78>>,
        second |-> <<>>, hash |-> FALSE, bounded |-> TRUE],
       [pattern |-> "Exclusive of Decoration", first |-> <<69, 88, 67, 76, 85, 83, 73, 86, 69, 32, 79, 70, 32, 68, 69, 67, 79, 82, 65, 84, 73, 79, 78>>,
        second |-> <<>>, hash |-> FALSE, bounded |-> FALSE],
       [pattern |-> "Body & Pocket", first |-> <<66, 79, 68, 89, 32, 38, 32, 80, 79, 67, 75, 69, 84>>,
        second |-> <<>>, hash |-> FALSE, bounded |-> FALSE],
       [pattern |-> "Inner Layer", first |-> <<73, 78, 78, 69, 82, 32, 76, 65, 89, 69, 82>>,
        second |-> <<>>, hash |-> FALSE, bounded |-> FALSE] >>

rfid_patterns ==
    << [pattern |-> "WALMART\\.COM/AVIA", first |-> <<87, 65, 76, 77, 65, 82, 84, 46, 67, 79, 77, 47, 65, 86, 73, 65>>,
        second |-> <<>>, hash |-> FALSE, bounded |-> FALSE],
       [pattern |-> "Find more at Walmart\\.com", first |-> <<70, 73, 78, 68, 32, 77, 79, 82, 69, 32, 65, 84, 32, 87, 65, 76, 77, 65, 82, 84, 46, 67, 79, 77>>,
        second |-> <<>>, hash |-> FALSE, bounded |-> FALSE],
       [pattern |-> "REGISTERED TRADEMARK", first |-> <<82, 69, 71, 73, 83, 84, 69, 82, 69, 68, 32, 84, 82, 65, 68, 69, 77, 65, 82, 75>>,
        second |-> <<>>, hash |-> FALSE, bounded |-> FALSE],
       [pattern |-> "AVIA STRETCH", first |-> <<65, 86, 73, 65, 32, 83, 84, 82, 69, 84, 67, 72>>,
        second |-> <<>>, hash |-> FALSE, bounded |-> FALSE],
       [pattern |-> "\\bBLACK\\s+SOOT\\b", first |-> <<66, 76, 65, 67, 75>>,
        second |-> <<83, 79, 79, 84>>, hash |-> FALSE, bounded |-> TRUE],
       [pattern |-> "\\bSALSA\\s+DELIGHT\\b", first |-> <<83, 65, 76, 83, 65>>,
        second |-> <<68, 69, 76, 73, 71, 72, 84>>, hash |-> FALSE, bounded |-> TRUE] >>

\* the end of pattern p matched at position i of s is well-formed: e is the
\* position behind first, n the length of the whitespace run at e
PatternTailAt(s, p, e, n) ==
    IF p.second # <<>>
    THEN /\ n >= 1
         /\ LitAtNoCase(s, e + n, p.second)
         /\ Boundary(s, e + n + Len(p.second))
    ELSE IF ~p.bounded THEN TRUE
    ELSE \/ (p.hash /\ e <= Len(s) /\ s[e] = 35 /\ Boundary(s, e + 1))
         \/ Boundary(s, e)

\* pattern p matches at position i of s
PatternAt(s, p, i) ==
    /\ (p.bounded => Boundary(s, i))
    /\ LitAtNoCase(s, i, p.first)
    /\ PatternTailAt(s, p, i + Len(p.first), SpaceRun(s, i + Len(p.first)))

\* re.search(pattern, normalized, re.IGNORECASE)
PatternSearch(s, p) == \E i \in 1..Len(s) : PatternAt(s, p, i)

\* one pass of a scoring loop that counts a matching pattern twice
ScoreStepWeighted(acc, p, found) ==
    IF found
    THEN [evidence |-> Append(acc.evidence, p.pattern), score |-> acc.score + 2]
    ELSE acc

\* one pass of a scoring loop: a matching pattern is appended to the
\* evidence and the score is incremented
ScoreStep(acc, p, found) ==
    IF found
    THEN [evidence |-> Append(acc.evidence, p.pattern), score |-> acc.score + 1]
    ELSE acc

\* for pattern in patterns: ..., from the k-th pattern on
RECURSIVE ScoreLoop(_, _, _, _)
ScoreLoop(s, patterns, k, acc) ==
    IF k > Len(patterns) THEN acc
    ELSE ScoreLoop(s, patterns, k + 1,
                   ScoreStep(acc, patterns[k], PatternSearch(s, patterns[k])))

\* the decision rule that gives ties to the hang tags
LabelOfTieToRfid(care_score, rfid_score) ==
    IF care_score = 0 /\ rfid_score = 0 THEN "unknown"
    ELSE IF care_score > rfid_score THEN "care_label" ELSE "rfid"

\* the decision rule
LabelOf(care_score, rfid_score) ==
    IF care_score = 0 /\ rfid_score = 0 THEN "unknown"
    ELSE IF care_score >= rfid_score THEN "care_label" ELSE "rfid"

\* an evidence list that survives from the previous call
EvidenceKept(left) == left

\* evidence = {"care_label": [], "rfid": []}: every call starts from empty
\* lists, whatever the previous call left behind
EvidenceAtStart(left) == <<>>

\* the returned dict, from the outcomes of the two loops
ClassificationResult(care, rfid) ==
    [type |-> LabelOf(care.score, rfid.score),
     care_score |-> care.score,
     rfid_score |-> rfid.score,
     evidence |-> [care_label |-> care.evidence, rfid |-> rfid.evidence]]

\* classify_pdf from the normalized text on; left is the evidence of the
\* previous call
ClassifyNormalized(s, left) ==
    ClassificationResult(
        ScoreLoop(s, care_patterns, 1,
                  [evidence |-> EvidenceAtStart(left.care_label), score |-> 0]),
        ScoreLoop(s, rfid_patterns, 1,
                  [evidence |-> EvidenceAtStart(left.rfid), score |-> 0]))

\* the text classify_pdf works on: the text of the first page, followed by a
\* newline and the OCR output when the page has fewer than 20 characters
ClassifiedText(doc, ocr) ==
    IF NeedsOcr(PageText(doc.page_text)) THEN PageText(doc.page_text) \o <<10>> \o ocr.value
    ELSE PageText(doc.page_text)

\* the exception classify_pdf(doc) ends with, "" when it returns: doc[0] of a
\* document without pages raises
classify_pdf_raises(doc) ==
    IF doc.pages = <<>> THEN "IndexError"
    ELSE IF NeedsOcr(PageText(doc.page_text)) THEN RenderAndOcr(doc.env).raised
    ELSE ""

\* the value classify_pdf(doc) returns, when it returns
classify_pdf(doc, left) ==
    ClassifyNormalized(normalize_text(ClassifiedText(doc, RenderAndOcr(doc.env))), left)

(***************************************************************************)
(* Document-level parent info (extract_parent_info of carelabel.py and of  *)
(* rfid.py); kind is "care" or "hang"                                      *)
(***************************************************************************)
L_REFERENCE == <<82, 101, 102, 101, 114, 101, 110, 99, 101, 32, 35, 58>>
L_JOB == <<74, 111, 98, 32, 35, 58>>
L_STYLE == <<83, 116, 121, 108, 101, 32, 35, 58>>
L_PO == <<80, 79, 32, 35, 58>>
L_DATE == <<68, 97, 116, 101, 58>>
L_PRODUCT == <<83, 84, 82, 69, 84, 67, 72, 32, 87, 79, 86, 69, 78, 32, 68, 82, 69, 83, 83>>
PRODUCT_NAME == <<83, 116, 114, 101, 116, 99, 104, 32, 87, 111, 118, 101, 110, 32, 68, 114, 101, 115, 115>>
MANUFACTURER ==
    <<114, 45, 112, 97, 99, 32, 73, 110, 116, 101, 114, 110, 97, 116, 105, 111, 110, 97, 108,
      32, 67, 111, 114, 112, 111, 114, 97, 116, 105, 111, 110>>
TAIWAN == <<84, 97, 105, 119, 97, 110>>

\* number of characters other than newline starting at position i
RECURSIVE LineRun(_, _)
LineRun(s, i) == IF i >= 1 /\ i <= Len(s) /\ s[i] # 10 THEN 1 + LineRun(s, i + 1) ELSE 0

\* label\s*([^\n]+) at position i: the start of group 1, else 0. e is the
\* position behind the label and n the whitespace run there; \s* takes the
\* whole run, and gives characters back while none other than a newline
\* follows it
HeaderGroupAt(s, i, label, e, n) ==
    IF ~LitAt(s, i, label) THEN 0
    ELSE FirstNonZero([k \in 1..(n + 1) |->
             IF LineRun(s, e + n + 1 - k) >= 1 THEN e + n + 1 - k ELSE 0])

\* match.group(1).strip() of the match whose group starts at g
HeaderValue(s, g) == Strip(SubSeq(s, g, g + LineRun(s, g) - 1))

\* re.search(label + r"\s*([^\n]+)", text) and the assignment it guards
HeaderField(info, s, label, key) ==
    PutIf(info,
          \E i \in 1..Len(s) :
              HeaderGroupAt(s, i, label, i + Len(label), SpaceRun(s, i + Len(label))) # 0,
          key,
          HeaderValue(s, FirstNonZero([i \in 1..Len(s) |->
              HeaderGroupAt(s, i, label, i + Len(label), SpaceRun(s, i + Len(label)))])))

\* the five header fields, in the order of the assignments
HeaderFields(info, s) ==
    HeaderField(HeaderField(HeaderField(HeaderField(HeaderField(info,
        s, L_REFERENCE, "reference"),
        s, L_JOB, "job_number"),
        s, L_STYLE, "style_number"),
        s, L_PO, "po_number"),
        s, L_DATE, "date")

\* "needle" in text
Contains(s, needle) == \E i \in 1..Len(s) : LitAt(s, i, needle)

\* an alternative of length n matched at position i is followed by \b
BoundedLen(s, i, n) == IF n # 0 /\ Boundary(s, i + n) THEN n ELSE 0

\* \b(BLACK\s+SOOT|BLAC\s+SOOT|SALSA\s+DELIGHT)\b at position i (the care
\* label file) or \b(BLACK\s+SOOT|SALSA\s+DELIGHT)\b (the hang tag file): the
\* length of the match, else 0
ParentColorLen(s, i, kind) ==
    IF ~Boundary(s, i) THEN 0
    ELSE FirstNonZero(
           << BoundedLen(s, i, TwoWordsLen(s, i, <<66, 76, 65, 67, 75>>, <<83, 79, 79, 84>>)),
              IF kind = "care"
              THEN BoundedLen(s, i, TwoWordsLen(s, i, <<66, 76, 65, 67>>, <<83, 79, 79, 84>>))
              ELSE 0,
              BoundedLen(s, i, TwoWordsLen(s, i, <<83, 65, 76, 83, 65>>,
                                           <<68, 69, 76, 73, 71, 72, 84>>)) >>)

\* the color assignment: group 1 of the leftmost match at position i of the
\* normalized text s, upper-cased, double blanks replaced; i = 0: no match
ParentColor(info, s, kind, i) ==
    PutIf(info, i # 0, "color",
          ReplaceDoubleBlank(Upper(SubSeq(s, i, i + ParentColorLen(s, i, kind) - 1))))

\* the fixed known-value checks of the hang tag file
KnownValues(info, s, kind) ==
    PutIf(PutIf(PutIf(info,
        kind = "hang" /\ Contains(s, L_PRODUCT), "product_name", PRODUCT_NAME),
        kind = "hang" /\ Contains(s, MANUFACTURER), "manufacturer", MANUFACTURER),
        kind = "hang" /\ Contains(s, MANUFACTURER), "manufacturer_location", TAIWAN)

\* parent_info from the text of page 1 (after the OCR fallback) and its
\* normalization
ParentFields(s, norm, kind) ==
    ParentColor(KnownValues(HeaderFields(EmptyDict, s), s, kind), norm, kind,
                FirstNonZero([i \in 1..Len(norm) |->
                    IF ParentColorLen(norm, i, kind) # 0 THEN i ELSE 0]))

\* the exception extract_parent_info ends with, "" when it returns: doc[0] of
\* a document without pages raises, then the same OCR fallback as the
\* classifier's
extract_parent_info_raises(doc) ==
    IF doc.pages = <<>> THEN "IndexError"
    ELSE IF NeedsOcr(PageText(doc.page_text)) THEN RenderAndOcr(doc.env).raised
    ELSE ""

\* the value extract_parent_info returns, when it returns
extract_parent_info(doc, kind) ==
    ParentFields(ClassifiedText(doc, RenderAndOcr(doc.env)),
                 normalize_text(ClassifiedText(doc, RenderAndOcr(doc.env))), kind)

(***************************************************************************)
(* Floating point.  Page sizes and region bounds are Python floats:        *)
(* IEEE-754 doubles, every operation rounded to 53 significant bits, ties  *)
(* to even.  A float is carried as sign, mantissa and exponent, its value  *)
(* being m * 2^e; the mantissa is a natural number written in limbs of 15  *)
(* bits, lowest limb first, <<>> being zero.  Floats are kept in lowest    *)
(* terms (odd mantissa), so that equal values are equal records.           *)
(***************************************************************************)
\* a natural number below 2^31 in limbs
RECURSIVE BigOf(_)
BigOf(n) == IF n = 0 THEN <<>> ELSE <<n % 32768>> \o BigOf(n \div 32768)

\* the limbs without zero limbs at the top
RECURSIVE BigTrim(_)
BigTrim(a) ==
    IF a = <<>> \/ a[Len(a)] # 0 THEN a ELSE BigTrim(SubSeq(a, 1, Len(a) - 1))

LimbAt(a, k) == IF k \in DOMAIN a THEN a[k] ELSE 0

\* a + b from limb k on, c being the carry
RECURSIVE BigAddFrom(_, _, _, _)
BigAddFrom(a, b, k, c) ==
    IF k > Len(a) /\ k > Len(b) THEN BigOf(c)
    ELSE <<(LimbAt(a, k) + LimbAt(b, k) + c) % 32768>>
         \o BigAddFrom(a, b, k + 1, (LimbAt(a, k) + LimbAt(b, k) + c) \div 32768)

BigAdd(a, b) == BigAddFrom(a, b, 1, 0)

\* a - b from limb k on for a >= b, c being the borrow
RECURSIVE BigSubFrom(_, _, _, _)
BigSubFrom(a, b, k, c) ==
    IF k > Len(a) THEN <<>>
    ELSE <<(a[k] - LimbAt(b, k) - c) % 32768>>
         \o BigSubFrom(a, b, k + 1, IF a[k] - LimbAt(b, k) - c < 0 THEN 1 ELSE 0)

BigSub(a, b) == BigTrim(BigSubFrom(a, b, 1, 0))

\* a < b for numbers of the same length, decided from limb k down
RECURSIVE BigLessFrom(_, _, _)
BigLessFrom(a, b, k) ==
    IF k = 0 THEN FALSE
    ELSE IF a[k] # b[k] THEN a[k] < b[k]
    ELSE BigLessFrom(a, b, k - 1)

BigLess(a, b) == IF Len(a) # Len(b) THEN Len(a) < Len(b) ELSE BigLessFrom(a, b, Len(a))

\* a * f from limb k on for a factor below 2^15, c being the carry
RECURSIVE BigMulFrom(_, _, _, _)
BigMulFrom(a, f, k, c) ==
    IF k > Len(a) THEN BigOf(c)
    ELSE <<(a[k] * f + c) % 32768>> \o BigMulFrom(a, f, k + 1, (a[k] * f + c) \div 32768)

BigMul(a, f) == IF f = 0 THEN <<>> ELSE BigMulFrom(a, f, 1, 0)

\* the limbs k down to 1 of a, behind the remainder r, divided by d <= 2^15:
\* quotient limbs and remainder
RECURSIVE BigDivFrom(_, _, _, _)
BigDivFrom(a, d, k, r) ==
    IF k = 0 THEN <<r>>
    ELSE Append(BigDivFrom(a, d, k - 1, (r * 32768 + a[k]) % d), (r * 32768 + a[k]) \div d)

BigQuot(a, d) == BigTrim(Tail(BigDivFrom(a, d, Len(a), 0)))
BigRem(a, d) == Head(BigDivFrom(a, d, Len(a), 0))

\* a * 2^n, and a divided by 2^n with whether bits were lost
BigShl(a, n) ==
    IF a = <<>> THEN <<>> ELSE [k \in 1..(n \div 15) |-> 0] \o BigMul(a, 2 ^ (n % 15))

BigShr(a, n) == BigQuot(SubSeq(a, (n \div 15) + 1, Len(a)), 2 ^ (n % 15))

BigLost(a, n) ==
    \/ \E k \in 1..(n \div 15) : LimbAt(a, k) # 0
    \/ BigRem(SubSeq(a, (n \div 15) + 1, Len(a)), 2 ^ (n % 15)) # 0

BigOdd(a) == a # <<>> /\ a[1] % 2 = 1

\* the number of bits of a
BitLen(a) ==
    IF a = <<>> THEN 0
    ELSE 15 * (Len(a) - 1) + (CHOOSE b \in 1..15 : a[Len(a)] \div (2 ^ (b - 1)) = 1)

\* the number of zero bits at the low end of a limb that is not zero
LowZeros(limb) == CHOOSE t \in 0..14 : limb % (2 ^ (t + 1)) = 2 ^ t

\* the float m * 2^e in lowest terms
RECURSIVE Float(_, _, _)
Float(neg, m, e) ==
    IF m = <<>> THEN [neg |-> FALSE, m |-> <<>>, e |-> 0]
    ELSE IF m[1] = 0 THEN Float(neg, Tail(m), e + 15)
    ELSE IF m[1] % 2 = 0 THEN [neg |-> neg, m |-> BigShr(m, LowZeros(m[1])), e |-> e + LowZeros(m[1])]
    ELSE [neg |-> neg, m |-> m, e |-> e]

\* float(n) of an integer below 2^31 in size
FloatOf(n) == Float(n < 0, BigOf(IF n < 0 THEN 0 - n ELSE n), 0)

\* the mantissa m without its d lowest bits, rounded to nearest, ties to
\* even; below tells that the exact value lies above m
Nearest(m, d, below) ==
    IF BigOdd(BigShr(m, d - 1)) /\ (below \/ BigLost(m, d - 1) \/ BigOdd(BigShr(m, d)))
    THEN BigAdd(BigShr(m, d), <<1>>)
    ELSE BigShr(m, d)

\* the double nearest to (m + fraction) * 2^e, below telling that the
\* fraction is not zero (then m has more than 53 bits)
Rounded(neg, m, e, below) ==
    IF BitLen(m) <= 53 THEN Float(neg, m, e)
    ELSE Float(neg, Nearest(m, BitLen(m) - 53, below), e + BitLen(m) - 53)

\* float(w) / c for integers w and c # 0, c below 2^15 in size
FloatDiv(w, c) ==
    Rounded((w < 0) # (c < 0),
            BigQuot(BigShl(BigOf(IF w < 0 THEN 0 - w ELSE w), 75), IF c < 0 THEN 0 - c ELSE c),
            0 - 75,
            BigRem(BigShl(BigOf(IF w < 0 THEN 0 - w ELSE w), 75), IF c < 0 THEN 0 - c ELSE c) # 0)

\* i * x for an integer i below 2^15 in size
FloatMul(i, x) ==
    Rounded((i < 0) # x.neg, BigMul(x.m, IF i < 0 THEN 0 - i ELSE i), x.e, FALSE)

\* the mantissa of x at the lower of the exponents of x and y
Aligned(x, y) == IF x.e > y.e THEN BigShl(x.m, x.e - y.e) ELSE x.m
LowerExp(x, y) == IF x.e > y.e THEN y.e ELSE x.e

\* x + y
FloatAdd(x, y) ==
    IF x.neg = y.neg
    THEN Rounded(x.neg, BigAdd(Aligned(x, y), Aligned(y, x)), LowerExp(x, y), FALSE)
    ELSE IF BigLess(Aligned(x, y), Aligned(y, x))
    THEN Rounded(y.neg, BigSub(Aligned(y, x), Aligned(x, y)), LowerExp(x, y), FALSE)
    ELSE Rounded(x.neg, BigSub(Aligned(x, y), Aligned(y, x)), LowerExp(x, y), FALSE)

\* x < y
FloatLess(x, y) ==
    IF x.neg # y.neg THEN x.neg
    ELSE IF x.neg THEN BigLess(Aligned(y, x), Aligned(x, y))
    ELSE BigLess(Aligned(x, y), Aligned(y, x))

\* min(x, y) and max(x, y) as Python computes them: the first unless the
\* second is smaller / greater
FloatMin(x, y) == IF FloatLess(y, x) THEN y ELSE x
FloatMax(x, y) == IF FloatLess(x, y) THEN y ELSE x

(***************************************************************************)
(* Layout segmenter: extract_care_labels (backend/app/extractors/          *)
(* carelabel.py) and extract_hang_tags (upc-validator/.../rfid.py).        *)
(* Page sizes, widths and offsets are whole points. Horizontal coordinates *)
(* are the floats the code computes. Vertical ones are kept multiplied by  *)
(* 100, the ratios being given in hundredths (top_pct = 22 for top_ratio   *)
(* = 0.22): they are compared with nothing, and a product by a greater     *)
(* ratio is never smaller.                                                 *)
(***************************************************************************)
\* the defaults of extract_care_labels
CARE_DEFAULTS ==
    [columns |-> 8, skip_first_column |-> TRUE, column_width |-> 88, left_offset |-> 45,
     top_pct |-> 22, bottom_pct |-> 61]

\* the defaults of extract_hang_tags, which has no column_width and no
\* left_offset: they are carried as 0 and not used
HANG_DEFAULTS ==
    [columns |-> 8, skip_first_column |-> TRUE, column_width |-> 0, left_offset |-> 0,
     top_pct |-> 22, bottom_pct |-> 92]

\* start_index = 1 if skip_first_column else 0
StartIndex(cfg) == IF cfg.skip_first_column THEN 1 ELSE 0

\* col_width = column_width or (page_width / columns) in extract_care_labels,
\* column_width = page_width / columns in extract_hang_tags
ColWidth(kind, cfg, page) ==
    IF kind = "care" /\ cfg.column_width # 0 THEN FloatOf(cfg.column_width)
    ELSE FloatDiv(page.width, cfg.columns)

\* max(0.0, min(page_width, x))
Clamp(page, x) == FloatMax(FloatOf(0), FloatMin(FloatOf(page.width), x))

\* the crop region of column i, the columns being col_width wide
RegionOf(kind, cfg, page, col_width, i) ==
    [x0 |-> IF kind = "care"
            THEN Clamp(page, FloatAdd(FloatOf(cfg.left_offset), FloatMul(i, col_width)))
            ELSE FloatMul(i, col_width),
     x1 |-> IF kind = "care"
            THEN Clamp(page, FloatAdd(FloatOf(cfg.left_offset), FloatMul(i + 1, col_width)))
            ELSE FloatMul(i + 1, col_width),
     top |-> page.height * cfg.top_pct,
     bottom |-> page.height * cfg.bottom_pct]

\* if x1 <= x0: continue, in extract_care_labels only
Retained(kind, region) == kind = "hang" \/ FloatLess(region.x0, region.x1)

\* page.get_text("text", clip=clip_rect) or "": the embedded text the PDF
\* engine returns for column i of the page
RegionText(page, i) ==
    IF i + 1 \in DOMAIN page.texts THEN PageText(page.texts[i + 1]) ELSE <<>>

\* "\n".join(part for part in [label_text, ocr_text] if part.strip())
CombinedText(label_text, ocr_text) ==
    IF Strip(label_text) = <<>> THEN (IF Strip(ocr_text) = <<>> THEN <<>> ELSE ocr_text)
    ELSE IF Strip(ocr_text) = <<>> THEN label_text
    ELSE label_text \o <<10>> \o ocr_text

\* the mutant that runs the OCR on every region
OcrWantedAlways(label_text) == TRUE

\* ocr_image(img) if len(label_text.strip()) < 20 else ""
OcrWanted(label_text) == NeedsOcr(label_text)

\* the barcode decoder of the environment: zbar_decode is None ("absent"),
\* returns env.decoded or raises
TagInfoRaises(env) == IF env.zbar = "raises" THEN "PyZbarError" ELSE ""

\* the exception the processing of one retained region ends with, "" when an
\* item is appended: the region is rendered first, the OCR runs when wanted,
\* and the hang tag extractor decodes the barcodes of the image
RegionRaises(kind, env, label_text) ==
    IF ~env.render_ok THEN "RuntimeError"
    ELSE IF OcrWanted(label_text) /\ ocr_image(env).raised # "" THEN ocr_image(env).raised
    ELSE IF kind = "hang" THEN TagInfoRaises(env)
    ELSE ""

\* the fields extracted from the combined text of a region
RegionInfo(kind, env, combined_text) ==
    IF kind = "care" THEN extract_care_label_info(combined_text)
    ELSE extract_tag_info(combined_text, env.zbar = "decodes", Image(env.decoded))

\* the item appended for column i of page number n, with what the segmenter
\* did for it: the region, the embedded text, whether the OCR was called and
\* the text handed to the field extractor
RegionItem(kind, env, n, i, region, label_text, combined_text) ==
    [item |-> Put(Put(RegionInfo(kind, env, combined_text), "page", n), "position", i),
     region |-> region,
     label_text |-> label_text,
     ocr_called |-> OcrWanted(label_text),
     combined_text |-> combined_text]

\* the exception the set-up of a page ends with: page_width / columns
PageRaises(kind, cfg) ==
    IF cfg.columns = 0 /\ (kind = "hang" \/ cfg.column_width = 0)
    THEN "ZeroDivisionError" ELSE ""

\* the loop over the pages, from page n on; acc holds the items so far. An
\* exception ends the loops and nothing is returned.
RECURSIVE SegmentFrom(_, _, _, _, _)
RECURSIVE SegmentColumns(_, _, _, _, _, _, _, _)
SegmentFrom(kind, cfg, doc, n, acc) ==
    IF n > Len(doc.pages) THEN Returned(acc)
    ELSE IF PageRaises(kind, cfg) # "" THEN Raised(PageRaises(kind, cfg))
    ELSE SegmentColumns(kind, cfg, doc, n, StartIndex(cfg), ColWidth(kind, cfg, doc.pages[n]),
             RegionOf(kind, cfg, doc.pages[n], ColWidth(kind, cfg, doc.pages[n]), StartIndex(cfg)),
             acc)

\* the loop over the columns of page n, from column i on, whose crop region
\* is region
SegmentColumns(kind, cfg, doc, n, i, col_width, region, acc) ==
    IF i >= cfg.columns THEN SegmentFrom(kind, cfg, doc, n + 1, acc)
    ELSE IF ~Retained(kind, region)
    THEN SegmentColumns(kind, cfg, doc, n, i + 1, col_width,
                        RegionOf(kind, cfg, doc.pages[n], col_width, i + 1), acc)
    ELSE IF RegionRaises(kind, doc.env, RegionText(doc.pages[n], i)) # ""
    THEN Raised(RegionRaises(kind, doc.env, RegionText(doc.pages[n], i)))
    ELSE SegmentColumns(kind, cfg, doc, n, i + 1, col_width,
             RegionOf(kind, cfg, doc.pages[n], col_width, i + 1),
             Append(acc,
                    RegionItem(kind, doc.env, n, i, region,
                               RegionText(doc.pages[n], i),
                               CombinedText(RegionText(doc.pages[n], i),
                                            IF OcrWanted(RegionText(doc.pages[n], i))
                                            THEN ocr_image(doc.env).value ELSE <<>>))))

\* the outcome of extract_care_labels / extract_hang_tags: the exception of
\* the loops or of extract_parent_info, else the returned dict (items holds
\* the list returned under "care_labels" / "hang_tags")
SegmentResult(kind, doc, loops) ==
    IF loops.raised # "" THEN loops
    ELSE IF extract_parent_info_raises(doc) # "" THEN Raised(extract_parent_info_raises(doc))
    ELSE Returned([parent_info |-> extract_parent_info(doc, kind), items |-> loops.value])

\* extract_care_labels(pdf, **cfg) for kind "care", extract_hang_tags for "hang"
extract_items(kind, cfg, doc) ==
    SegmentResult(kind, doc, SegmentFrom(kind, cfg, doc, 1, <<>>))

(***************************************************************************)
(* Page splitter (Files/split_care_labels.py); the loops of                *)
(* extract_care_labels in Files/carelabel.py compute their regions alike   *)
(***************************************************************************)
\* the defaults of split_care_labels: column_width=None is carried as 0
SPLIT_DEFAULTS ==
    [columns |-> 8, skip_first_column |-> TRUE, column_width |-> 0, left_offset |-> 0,
     top_pct |-> 0, bottom_pct |-> 100]

\* the mutant that computes the width of every page anew
SplitColWidthPerPage(cfg, page, cw) ==
    IF cfg.column_width # 0 THEN FloatOf(cfg.column_width)
    ELSE FloatDiv(page.width, cfg.columns)

\* column_width = column_width or (page_width / columns): the parameter
\* itself is rebound, cw is its value before the page (zero for None as for
\* 0), so a width computed for one page is kept for the next
SplitColWidth(cfg, page, cw) ==
    IF cw # FloatOf(0) THEN cw ELSE FloatDiv(page.width, cfg.columns)

\* the crop region of column i with the column width cw
SplitRegionOf(cfg, page, cw, i) ==
    [x0 |-> Clamp(page, FloatAdd(FloatOf(cfg.left_offset), FloatMul(i, cw))),
     x1 |-> Clamp(page, FloatAdd(FloatOf(cfg.left_offset), FloatMul(i + 1, cw))),
     top |-> page.height * cfg.top_pct,
     bottom |-> page.height * cfg.bottom_pct]

\* label_index = i if skip_first_column else i + 1
LabelIndex(cfg, i) == IF cfg.skip_first_column THEN i ELSE i + 1

\* the file saved for column i of page n: page{n}_label{label_index}.png is
\* carried as the two numbers, with the region the image was cut from
SavedLabel(cfg, n, i, region) ==
    [page |-> n, label |-> LabelIndex(cfg, i), position |-> i, region |-> region]

\* the loop over the pages, from page n on, and the loop over the columns of
\* page n, from column i on; acc holds the files saved so far
RECURSIVE SplitPages(_, _, _, _, _)
RECURSIVE SplitColumns(_, _, _, _, _, _, _)
SplitPages(cfg, doc, n, cw, acc) ==
    IF n > Len(doc.pages) THEN Returned(acc)
    ELSE IF cw = FloatOf(0) /\ cfg.columns = 0 THEN Raised("ZeroDivisionError")
    ELSE SplitColumns(cfg, doc, n, StartIndex(cfg), SplitColWidth(cfg, doc.pages[n], cw),
             SplitRegionOf(cfg, doc.pages[n], SplitColWidth(cfg, doc.pages[n], cw), StartIndex(cfg)),
             acc)

SplitColumns(cfg, doc, n, i, cw, region, acc) ==
    IF i >= cfg.columns THEN SplitPages(cfg, doc, n + 1, cw, acc)
    ELSE IF ~FloatLess(region.x0, region.x1)
    THEN SplitColumns(cfg, doc, n, i + 1, cw, SplitRegionOf(cfg, doc.pages[n], cw, i + 1), acc)
    ELSE IF ~doc.env.render_ok THEN Raised("RuntimeError")
    ELSE SplitColumns(cfg, doc, n, i + 1, cw, SplitRegionOf(cfg, doc.pages[n], cw, i + 1),
                      Append(acc, SavedLabel(cfg, n, i, region)))

\* split_care_labels(pdf, output_dir, **cfg): the list of saved files
split_care_labels(cfg, doc) ==
    SplitPages(cfg, doc, 1, FloatOf(cfg.column_width), <<>>)


(***************************************************************************)
(* Service (upc-validator/backend/app/main.py)                             *)
(***************************************************************************)
\* Python's "a or b" on values that are None or strings: a when it is
\* neither None nor empty, else b
OrElse(a, b) == IF a # None /\ a # <<>> THEN a ELSE b

\* dict(item) followed by pop("composition", None): a copy without that key
RawItem(item) == [k \in (DOMAIN item) \ {"composition"} |-> item[k]]

\* the mutant that prefers the candidate to the decoded barcode
MergedUpcCandidateFirst(item) ==
    OrElse(OrElse(Get(item, "upc"), Get(item, "upc_candidate")), Get(item, "barcode"))

\* item.get("upc") or item.get("barcode") or item.get("upc_candidate")
MergedUpc(item) ==
    OrElse(OrElse(Get(item, "upc"), Get(item, "barcode")), Get(item, "upc_candidate"))

\* the dict built for one item
MergedItem(item, parent_info) ==
    [style_number |-> OrElse(Get(item, "style_number"), Get(parent_info, "style_number")),
     size |-> Get(item, "size"),
     color |-> OrElse(Get(item, "color"), Get(parent_info, "color")),
     upc |-> MergedUpc(item),
     raw |-> RawItem(item)]

\* _normalize_items(items, parent_info)
_normalize_items(items, parent_info) ==
    [k \in 1..Len(items) |-> MergedItem(items[k], parent_info)]

\* the content types the /extract handler accepts
PDF_TYPES == {"application/pdf", "application/x-pdf"}

\* the list an extractor returns under "care_labels" / "hang_tags", with
\* its parent_info
Metadata(result) ==
    [parent_info |-> result.parent_info,
     items |-> [k \in 1..Len(result.items) |-> result.items[k].item]]

\* the extractor the handler calls first for a classification type
FirstPath(type) == IF type = "rfid" THEN "hang" ELSE "care"

\* the mutant that runs hang-tag extraction after every care-label
\* extraction of a document of unknown type
FallsBackAlways(type, found) == type \notin {"care_label", "rfid"}

\* the else branch: extract_hang_tags runs when the type is neither
\* care_label nor rfid and metadata["care_labels"] is empty
FallsBackToHangTags(type, found) == type \notin {"care_label", "rfid"} /\ found = <<>>

\* one call of the handler: op is save, classify, care, hang, extend_care,
\* extend_hang or remove; type is the type classify_pdf returned, n the
\* number of items returned or appended, error the exception raised
Call(op, file, type, n, error) ==
    [op |-> op, file |-> file, type |-> type, n |-> n, raised |-> error]

(***************************************************************************)
(* Spreadsheet reader (upc-validator/backend/app/validation.py)            *)
(***************************************************************************)
\* the characters of [a-z0-9] in str.lower() of one character: an ASCII
\* letter in lower case, an ASCII digit; beyond ASCII only U+0130 (lowered to
\* i and a combining dot) and U+212A (lowered to k) give any
LowerAlnum(c) ==
    IF IsUpper(c) THEN <<c + 32>>
    ELSE IF IsLower(c) \/ IsDigit(c) THEN <<c>>
    ELSE IF c = 304 THEN <<105>>
    ELSE IF c = 8490 THEN <<107>>
    ELSE <<>>

\* _normalize_column_name(name): re.sub(r"[^a-z0-9]+", "", name.lower())
RECURSIVE _normalize_column_name(_)
_normalize_column_name(name) ==
    IF name = <<>> THEN <<>>
    ELSE LowerAlnum(Head(name)) \o _normalize_column_name(Tail(name))

\* the dict {_normalize_column_name(col): col for col in columns} as the list
\* of its entries: a key stays where it was first inserted and holds the last
\* column that gave it
NormalizedColumns(columns) ==
    LET key(k) == _normalize_column_name(columns[k])
        firsts == SelectSeq([k \in 1..Len(columns) |-> k],
                            LAMBDA k : \A j \in 1..(k - 1) : key(j) # key(k))
        last(k) == CHOOSE j \in 1..Len(columns) :
                       key(j) = key(k) /\ \A i \in (j + 1)..Len(columns) : key(i) # key(k)
    IN [n \in 1..Len(firsts) |-> [key |-> key(firsts[n]), original |-> columns[last(firsts[n])]]]

\* find_column(*candidates): the column of the first entry whose key contains
\* one of the candidates, "" when there is none
find_column(entries, candidates) ==
    LET hits == SelectSeq(entries, LAMBDA e : \E c \in candidates : Contains(e.key, c))
    IN IF hits = <<>> THEN <<>> ELSE hits[1].original

\* the candidates of the care-label, hang-tag and generic code columns
CARE_UPC_NAMES == {<<99, 97, 114, 101, 108, 97, 98, 101, 108, 117, 112, 99>>, <<99, 97, 114, 101, 117, 112, 99>>, <<99, 97, 114, 101, 108, 97, 98, 101, 108>>}
HANG_UPC_NAMES == {<<104, 97, 110, 103, 116, 97, 103, 117, 112, 99>>, <<104, 97, 110, 103, 117, 112, 99>>, <<114, 102, 105, 100, 117, 112, 99>>, <<104, 97, 110, 103, 116, 97, 103>>, <<114, 102, 105, 100>>}
UPC_NAMES == {<<117, 112, 99>>}

\* _map_columns(columns)
_map_columns(columns) ==
    LET entries == NormalizedColumns(columns)
    IN [style |-> find_column(entries, {<<115, 116, 121, 108, 101>>}),
        size |-> find_column(entries, {<<115, 105, 122, 101>>}),
        color |-> find_column(entries, {<<99, 111, 108, 111, 114>>}),
        care_upc |-> find_column(entries, CARE_UPC_NAMES),
        hang_upc |-> find_column(entries, HANG_UPC_NAMES),
        upc |-> find_column(entries, UPC_NAMES)]

\* row.get(name): the cell of the row under the column called name; a cell is
\* carried as the text str() gives for it ("nan" for an empty cell)
CellOf(frame, r, name) ==
    frame.data[r][CHOOSE k \in 1..Len(frame.columns) : frame.columns[k] = name]

\* _normalize_value(row.get(name)) if name else ""
ValueUnder(frame, r, name) ==
    IF name = <<>> THEN <<>> ELSE _normalize_value(CellOf(frame, r, name))

\* _normalize_upc(row.get(name)) if name else ""
UpcUnder(frame, r, name) ==
    IF name = <<>> THEN <<>> ELSE _normalize_upc(CellOf(frame, r, name))

\* if not care_upc and generic_upc: care_upc = generic_upc
CareUpcOf(care_upc, generic_upc) ==
    IF care_upc = <<>> /\ generic_upc # <<>> THEN generic_upc ELSE care_upc

\* the dict appended for row r
SheetRow(frame, column_map, r) ==
    [style |-> ValueUnder(frame, r, column_map.style),
     size |-> ValueUnder(frame, r, column_map.size),
     color |-> ValueUnder(frame, r, column_map.color),
     care_upc |-> CareUpcOf(UpcUnder(frame, r, column_map.care_upc),
                            UpcUnder(frame, r, column_map.upc)),
     hang_upc |-> UpcUnder(frame, r, column_map.hang_upc)]

\* read_spreadsheet(file_path), for the data frame pandas reads from the file
read_spreadsheet(frame) ==
    [r \in 1..Len(frame.data) |-> SheetRow(frame, _map_columns(frame.columns), r)]

\* the extraction before any call
NoExtraction == [parent_info |-> EmptyDict, items |-> <<>>]

\* the classification before any call
NoClassification ==
    [type |-> "unknown", care_score |-> 0, rfid_score |-> 0,
     evidence |-> [care_label |-> <<>>, rfid |-> <<>>]]

\* the environments of the OCR collaborator
OCR_ENVS ==
    << \* no OCR engine at all
       [render_ok |-> TRUE, pytesseract |-> "absent", which |-> FALSE, run_ok |-> FALSE, output_file |-> FALSE, stdout_utf8 |-> TRUE, file_utf8 |-> TRUE, ocr_text |-> <<>>],
       \* pytesseract reads the image
       [render_ok |-> TRUE, pytesseract |-> "returns", which |-> TRUE, run_ok |-> TRUE, output_file |-> TRUE, stdout_utf8 |-> TRUE, file_utf8 |-> TRUE, ocr_text |-> <<70, 105, 110, 100, 32, 109, 111, 114, 101, 32, 97, 116, 32, 87, 97, 108, 109, 97, 114, 116, 46, 99, 111, 109, 32, 66, 76, 65, 67, 75, 32, 83, 79, 79, 84>>],
       \* pytesseract raises
       [render_ok |-> TRUE, pytesseract |-> "raises", which |-> FALSE, run_ok |-> FALSE, output_file |-> FALSE, stdout_utf8 |-> TRUE, file_utf8 |-> TRUE, ocr_text |-> <<>>],
       \* the tesseract binary reads the image
       [render_ok |-> TRUE, pytesseract |-> "absent", which |-> TRUE, run_ok |-> TRUE, output_file |-> TRUE, stdout_utf8 |-> TRUE, file_utf8 |-> TRUE, ocr_text |-> <<73, 110, 110, 101, 114, 32, 76, 97, 121, 101, 114, 32, 66, 111, 100, 121, 32, 38, 32, 80, 111, 99, 107, 101, 116>>],
       \* the tesseract binary exits with an error
       [render_ok |-> TRUE, pytesseract |-> "absent", which |-> TRUE, run_ok |-> FALSE, output_file |-> FALSE, stdout_utf8 |-> TRUE, file_utf8 |-> TRUE, ocr_text |-> <<>>],
       \* the tesseract binary leaves no output file
       [render_ok |-> TRUE, pytesseract |-> "absent", which |-> TRUE, run_ok |-> TRUE, output_file |-> FALSE, stdout_utf8 |-> TRUE, file_utf8 |-> TRUE, ocr_text |-> <<>>],
       \* the page cannot be rendered
       [render_ok |-> FALSE, pytesseract |-> "returns", which |-> TRUE, run_ok |-> TRUE, output_file |-> TRUE, stdout_utf8 |-> TRUE, file_utf8 |-> TRUE, ocr_text |-> <<70, 105, 110, 100, 32, 109, 111, 114, 101, 32, 97, 116, 32, 87, 97, 108, 109, 97, 114, 116, 46, 99, 111, 109, 32, 66, 76, 65, 67, 75, 32, 83, 79, 79, 84>>],
       \* the tesseract binary prints bytes that are not UTF-8 and exits with an error
       [render_ok |-> TRUE, pytesseract |-> "absent", which |-> TRUE, run_ok |-> FALSE, output_file |-> FALSE, stdout_utf8 |-> FALSE, file_utf8 |-> TRUE, ocr_text |-> <<>>],
       \* the output file of the tesseract binary is not UTF-8
       [render_ok |-> TRUE, pytesseract |-> "absent", which |-> TRUE, run_ok |-> TRUE, output_file |-> TRUE, stdout_utf8 |-> TRUE, file_utf8 |-> FALSE, ocr_text |-> <<73, 110, 110, 101, 114, 32, 76, 97, 121, 101, 114, 32, 66, 111, 100, 121, 32, 38, 32, 80, 111, 99, 107, 101, 116>>] >>

\* first pages with fewer than 20 characters of text: '' and 'RN# 12345'
EMPTY_PAGE == <<>>
RN_PAGE == <<82, 78, 35, 32, 49, 50, 51, 52, 53>>

\* 'RN# 12345 Made In' between an em space, an ideographic space and a line
\* separator: 22 characters, 17 of them left by str.strip()
WIDE_BLANK_PAGE == <<8195, 12288, 82, 78, 35, 32, 49, 50, 51, 52, 53, 32, 77, 97, 100, 101, 32, 73, 110, 8232, 8195, 12288>>

\* first pages with 20 characters of text or more
LONG_PAGES ==
    { \* 'Black  Soot walmart.com/avia RN#12345 Made In'
       <<66, 108, 97, 99, 107, 32, 32, 83, 111, 111, 116, 32, 119, 97, 108, 109, 97, 114, 116, 46, 99, 111, 109, 47, 97, 118, 105, 97, 32, 82, 78, 35, 49, 50, 51, 52, 53, 32, 77, 97, 100, 101, 32, 73, 110>>,
       \* 'AVIA STRETCH Salsa\nDelight Registered Trademark Hecho en'
       <<65, 86, 73, 65, 32, 83, 84, 82, 69, 84, 67, 72, 32, 83, 97, 108, 115, 97, 10, 68, 101, 108, 105, 103, 104, 116, 32, 82, 101, 103, 105, 115, 116, 101, 114, 101, 100, 32, 84, 114, 97, 100, 101, 109, 97, 114, 107, 32, 72, 101, 99, 104, 111, 32, 101, 110>>,
       \* 'Size M 100% cotton machine wash cold'
       <<83, 105, 122, 101, 32, 77, 32, 49, 48, 48, 37, 32, 99, 111, 116, 116, 111, 110, 32, 109, 97, 99, 104, 105, 110, 101, 32, 119, 97, 115, 104, 32, 99, 111, 108, 100>>,
       \* 'RN# Made In Hecho En Exclusive of Decoration Body & Pocket Inner Layer'
       <<82, 78, 35, 32, 77, 97, 100, 101, 32, 73, 110, 32, 72, 101, 99, 104, 111, 32, 69, 110, 32, 69, 120, 99, 108, 117, 115, 105, 118, 101, 32, 111, 102, 32, 68, 101, 99, 111, 114, 97, 116, 105, 111, 110, 32, 66, 111, 100, 121, 32, 38, 32, 80, 111, 99, 107, 101, 116, 32, 73, 110, 110, 101, 114, 32, 76, 97, 121, 101, 114>>,
       \* 'BLACKSOOT REGISTERED TRADEMARKS rn#x MadeIn Chinatown'
       <<66, 76, 65, 67, 75, 83, 79, 79, 84, 32, 82, 69, 71, 73, 83, 84, 69, 82, 69, 68, 32, 84, 82, 65, 68, 69, 77, 65, 82, 75, 83, 32, 114, 110, 35, 120, 32, 77, 97, 100, 101, 73, 110, 32, 67, 104, 105, 110, 97, 116, 111, 119, 110>> }

(***************************************************************************)
(* Checksum harness: a code is drawn, is_valid_upc_ean is applied to it.   *)
(***************************************************************************)
MaxEdits == 1

UPC_VALID == <<48, 51, 54, 48, 48, 48, 50, 57, 49, 52, 53, 50>>
UPC_INVALID == <<48, 51, 54, 48, 48, 48, 50, 57, 49, 52, 53, 51>>
EAN_VALID == <<52, 48, 48, 54, 51, 56, 49, 51, 51, 51, 57, 51, 49>>
EAN_INVALID == <<49, 50, 51, 52, 53, 54, 55, 56, 57, 48, 49, 50, 57>>

BaseCodes == {UPC_VALID, UPC_INVALID, EAN_VALID, EAN_INVALID}

\* every code that differs from c in at most k digit positions
RECURSIVE Edits(_, _)
Edits(c, k) ==
    IF k = 0 THEN {c}
    ELSE UNION {{[e EXCEPT ![i] = d] : i \in 1..Len(e), d \in 48..57} :
                e \in Edits(c, k - 1)}

\* codes that are not 12 or 13 ASCII digits: "", "x", "12a", " 036000291452",
\* 11 and 14 digits, one digit, superscript two alone and in a code, an
\* Arabic-Indic digit alone and as the check digit of a UPC-A code, a circled
\* one alone and as a check digit, a superscript zero, a fullwidth one
OtherCodes ==
    { <<>>, <<120>>, <<49, 50, 97>>,
      <<32>> \o UPC_VALID,
      SubSeq(UPC_VALID, 1, 11),
      UPC_VALID \o <<49, 50>>,
      <<55>>,
      <<178>>,
      SubSeq(UPC_VALID, 1, 11) \o <<178>>,
      <<49, 178, 120>>,
      <<1633>>,
      SubSeq(UPC_VALID, 1, 11) \o <<1634>>,
      <<9312>>,
      SubSeq(UPC_VALID, 1, 11) \o <<9313>>,
      <<8304>>,
      <<65297>> }

\* the codes of BaseCodes in Devanagari digits: '०३६०००२९१४५२' and the like
DevanagariCodes == {[i \in DOMAIN b |-> b[i] - 48 + 2406] : b \in BaseCodes}

CodeInputs ==
    UNION {Edits(b, MaxEdits) : b \in BaseCodes} \cup OtherCodes \cup DevanagariCodes

NotRaised == raised = ""
ChecksumIdle == code = <<>> /\ valid = FALSE
SegmentIdle ==
    extractor = "care" /\ config = CARE_DEFAULTS /\ extraction = NoExtraction
SheetIdle == sheet = [columns |-> <<>>, data |-> <<>>] /\ sheet_rows = <<>>
MergeIdle == metadata = NoExtraction /\ merged = <<>>
HandlerIdle ==
    /\ uploads = <<>> /\ file_index = 0 /\ tmp_files = {} /\ calls = <<>>
    /\ pending = "" /\ response = [care_labels |-> <<>>, hang_tags |-> <<>>]
ServiceIdle == SheetIdle /\ MergeIdle /\ HandlerIdle

ClassifyIdle ==
    /\ document = [page_text |-> <<>>, env |-> OCR_ENVS[1]]
    /\ classification = NoClassification
    /\ history = <<>>
NormalizeIdle == text = <<>> /\ normalized = <<>> /\ renormalized = <<>>
ExtractIdle ==
    zbar_decode = TRUE /\ tag_image = NoImage /\ upc_found = <<>> /\ label_info = EmptyDict
NoValidation ==
    [summary |-> [rows |-> 0, care_label_matches |-> 0, hang_tag_matches |-> 0],
     results |-> <<>>]
ValidateIdle ==
    rows = <<>> /\ care_labels = <<>> /\ hang_tags = <<>> /\ validation = NoValidation

InitChecksum ==
    /\ pc = "start"
    /\ NotRaised
    /\ SegmentIdle
    /\ ServiceIdle
    /\ ClassifyIdle
    /\ code \in CodeInputs
    /\ valid = FALSE
    /\ NormalizeIdle
    /\ ExtractIdle
    /\ ValidateIdle

CheckCode ==
    /\ pc = "start"
    /\ raised' = is_valid_upc_ean_raises(code)
    /\ IF raised' # ""
       THEN valid' = valid /\ pc' = "raised"
       ELSE valid' = is_valid_upc_ean(code) /\ pc' = "checked"
    /\ UNCHANGED <<code, text, normalized, renormalized>>
    /\ UNCHANGED <<zbar_decode, tag_image, upc_found, label_info>>
    /\ UNCHANGED <<rows, care_labels, hang_tags, validation>>
    /\ UNCHANGED classifyVars
    /\ UNCHANGED segmentVars
    /\ UNCHANGED serviceVars

NextChecksum == CheckCode

SpecChecksum == InitChecksum /\ [][NextChecksum]_vars

(***************************************************************************)
(* Normalizer harness: a raw text is drawn, normalize_text is applied, and *)
(* applied again to its own output as extract_care_label_info and          *)
(* extract_upc_candidate do between them.                                  *)
(***************************************************************************)
MaxLen == 5

\* '1', '2', space, tab, NUL, 'x'
TextAlphabet == {49, 50, 32, 9, 0, 120}

RECURSIVE SeqsUpTo(_, _)
SeqsUpTo(A, n) ==
    IF n = 0 THEN {<<>>}
    ELSE LET shorter == SeqsUpTo(A, n - 1)
         IN shorter \cup {Append(s, a) : s \in {t \in shorter : Len(t) = n - 1}, a \in A}

\* "123 456 7890 12", the digit-rejoining example
GROUPED_DIGITS == <<49, 50, 51, 32, 52, 53, 54, 32, 55, 56, 57, 48, 32, 49, 50>>
JOINED_DIGITS == <<49, 50, 51, 52, 53, 54, 55, 56, 57, 48, 49, 50>>

TextInputs == SeqsUpTo(TextAlphabet, MaxLen) \cup {GROUPED_DIGITS}

InitNormalize ==
    /\ pc = "start"
    /\ NotRaised
    /\ SegmentIdle
    /\ ServiceIdle
    /\ ClassifyIdle
    /\ text \in TextInputs
    /\ normalized = <<>>
    /\ renormalized = <<>>
    /\ ChecksumIdle
    /\ ExtractIdle
    /\ ValidateIdle

Normalize ==
    /\ pc = "start"
    /\ normalized' = normalize_text(text)
    /\ pc' = "normalized"
    /\ UNCHANGED <<code, valid, text, renormalized>>
    /\ UNCHANGED <<zbar_decode, tag_image, upc_found, label_info>>
    /\ UNCHANGED <<rows, care_labels, hang_tags, validation>>
    /\ UNCHANGED raised
    /\ UNCHANGED classifyVars
    /\ UNCHANGED segmentVars
    /\ UNCHANGED serviceVars

Renormalize ==
    /\ pc = "normalized"
    /\ renormalized' = normalize_text(normalized)
    /\ pc' = "renormalized"
    /\ UNCHANGED <<code, valid, text, normalized>>
    /\ UNCHANGED <<zbar_decode, tag_image, upc_found, label_info>>
    /\ UNCHANGED <<rows, care_labels, hang_tags, validation>>
    /\ UNCHANGED raised
    /\ UNCHANGED classifyVars
    /\ UNCHANGED segmentVars
    /\ UNCHANGED serviceVars

NextNormalize == Normalize \/ Renormalize

SpecNormalize == InitNormalize /\ [][NextNormalize]_vars

(***************************************************************************)
(* Extractor harness: a label text is drawn and one of the extractors is   *)
(* applied to it, as extract_care_labels / extract_hang_tags do with the   *)
(* text of every region.                                                   *)
(***************************************************************************)
\* what stands before the code on a label
PREFIXES ==
    { <<>>,  \* ""
      <<76, 32, 40, 49, 48, 45, 49, 50, 41, 32, 82, 78, 35, 49, 50, 51, 52, 53>>,  \* "L (10-12) RN#12345"
      <<85, 80, 67>>,  \* "UPC"
      <<101, 97, 110, 47, 117, 112, 99>>,  \* "ean/upc"
      <<88, 76, 32, 40, 49, 54, 45, 49, 56, 41, 32, 65, 86, 49, 50, 65, 66, 51>>,  \* "XL (16-18) AV12AB3"
      <<66, 108, 97, 99, 107, 32, 32, 83, 111, 111, 116, 32, 48, 48, 49, 32, 82, 78, 35, 32, 55, 32, 85, 80, 67>>,  \* "Black  Soot 001 RN# 7 UPC"
      <<77, 97, 100, 101, 32, 73, 110, 32, 32, 67, 104, 105, 110, 97, 32, 65, 86, 88, 57>>,  \* "Made In  China AVX9"
      <<54, 48, 37, 32, 67, 111, 116, 116, 111, 110, 32, 47, 32, 52, 48, 37, 32, 80, 111, 108, 121, 45, 101, 115, 116, 101, 114, 46>>,  \* "60% Cotton / 40% Poly-ester."
      <<69, 120, 99, 108, 117, 115, 105, 118, 101, 32, 111, 102, 32, 100, 101, 99, 111, 114, 97, 116, 105, 111, 110>>,  \* "Exclusive of decoration"
      <<56, 32, 45, 32, 49, 48, 32, 82, 78, 32, 55, 55, 32, 120>>,  \* "8 - 10 RN 77 x"
      <<49, 53, 48, 37, 32, 87, 111, 111, 108>>,  \* "150% Wool"
      <<88, 76, 32, 88, 88, 76, 32, 40, 50, 48, 41>>,  \* "XL XXL (20)"
      <<115, 105, 122, 101, 32, 50, 48, 58>>  \* "size 20:"
    }

\* what separates it from the code
SEPARATORS ==
    { <<>>,  \* ""
      <<32>>,  \* " "
      <<10, 9>>  \* "\n\t"
    }

\* the code as printed: valid and invalid UPC-A and EAN-13, grouped, too short, too long
CODE_TEXTS ==
    { <<48, 51, 54, 48, 48, 48, 50, 57, 49, 52, 53, 50>>,  \* "036000291452"
      <<48, 51, 54, 48, 48, 48, 50, 57, 49, 52, 53, 51>>,  \* "036000291453"
      <<52, 48, 48, 54, 51, 56, 49, 51, 51, 51, 57, 51, 49>>,  \* "4006381333931"
      <<49, 50, 51, 52, 53, 54, 55, 56, 57, 48, 49, 50, 57>>,  \* "1234567890129"
      <<48, 32, 51, 54, 48, 48, 48, 32, 50, 57, 49, 52, 53, 32, 50>>,  \* "0 36000 29145 2"
      <<48, 51, 54, 48, 48, 48, 50, 57, 49, 52, 53>>,  \* "03600029145"
      <<48, 51, 54, 48, 48, 48, 50, 57, 49, 52, 53, 50, 49, 50>>,  \* "03600029145212"
      <<49, 32, 50, 32, 51, 32, 52, 32, 53, 32, 54, 32, 55, 32, 56, 32, 57, 32, 48, 32, 49, 32, 50>>,  \* "1 2 3 4 5 6 7 8 9 0 1 2"
      <<>>  \* ""
    }

\* what follows the code
SUFFIXES ==
    { <<>>,  \* ""
      <<32, 57>>,  \* " 9"
      <<120>>  \* "x"
    }

LabelTexts ==
    {p \o sep \o c \o x : p \in PREFIXES, sep \in SEPARATORS, c \in CODE_TEXTS, x \in SUFFIXES}

\* what the barcode decoder reads from the region's image
TagImages ==
    { NoImage,
      Image(<<>>),
      Image(<< Payload(TRUE, <<32, 48, 51, 54, 48, 48, 48, 50, 57, 49, 52, 53, 50, 10>>) >>),
      Image(<< Payload(FALSE, <<>>), Payload(TRUE, <<32, 32>>), Payload(TRUE, <<88, 49>>) >>) }

InitExtract ==
    /\ pc = "start"
    /\ NotRaised
    /\ SegmentIdle
    /\ ServiceIdle
    /\ ClassifyIdle
    /\ text \in LabelTexts
    /\ normalized = <<>>
    /\ renormalized = <<>>
    /\ ChecksumIdle
    /\ ExtractIdle
    /\ ValidateIdle

ExtractUpcCandidate ==
    /\ pc = "start"
    /\ upc_found' = extract_upc_candidate(text)
    /\ pc' = "candidate"
    /\ UNCHANGED <<code, valid, text, normalized, renormalized>>
    /\ UNCHANGED <<zbar_decode, tag_image, label_info>>
    /\ UNCHANGED <<rows, care_labels, hang_tags, validation>>
    /\ UNCHANGED raised
    /\ UNCHANGED classifyVars
    /\ UNCHANGED segmentVars
    /\ UNCHANGED serviceVars

ExtractValidUpc ==
    /\ pc = "start"
    /\ upc_found' = extract_valid_upc(text)
    /\ pc' = "valid_upc"
    /\ UNCHANGED <<code, valid, text, normalized, renormalized>>
    /\ UNCHANGED <<zbar_decode, tag_image, label_info>>
    /\ UNCHANGED <<rows, care_labels, hang_tags, validation>>
    /\ UNCHANGED raised
    /\ UNCHANGED classifyVars
    /\ UNCHANGED segmentVars
    /\ UNCHANGED serviceVars

ExtractCareLabelInfo ==
    /\ pc = "start"
    /\ label_info' = extract_care_label_info(text)
    /\ pc' = "care_info"
    /\ UNCHANGED <<code, valid, text, normalized, renormalized>>
    /\ UNCHANGED <<zbar_decode, tag_image, upc_found>>
    /\ UNCHANGED <<rows, care_labels, hang_tags, validation>>
    /\ UNCHANGED raised
    /\ UNCHANGED classifyVars
    /\ UNCHANGED segmentVars
    /\ UNCHANGED serviceVars

ExtractTagInfo ==
    /\ pc = "start"
    /\ \E z \in BOOLEAN, img \in TagImages :
           /\ zbar_decode' = z
           /\ tag_image' = img
           /\ label_info' = extract_tag_info(text, z, img)
    /\ pc' = "tag_info"
    /\ UNCHANGED <<code, valid, text, normalized, renormalized, upc_found>>
    /\ UNCHANGED <<rows, care_labels, hang_tags, validation>>
    /\ UNCHANGED raised
    /\ UNCHANGED classifyVars
    /\ UNCHANGED segmentVars
    /\ UNCHANGED serviceVars

NextExtract ==
    ExtractUpcCandidate \/ ExtractValidUpc \/ ExtractCareLabelInfo \/ ExtractTagInfo

SpecExtract == InitExtract /\ [][NextExtract]_vars

(***************************************************************************)
(* Reconciliation harness: expected rows and the two item collections are  *)
(* drawn, validate_rows is applied to them.                                *)
(***************************************************************************)
MaxItems == 2
MaxRows == 2

\* care-label items as _normalize_items of main.py merges them
CARE_ITEMS ==
    \* style and size of the row AV1/M/BLACK SOOT, no code: style_number="AV1", size="M", color="RED", upc=None
    { [style_number |-> <<65, 86, 49>>, size |-> <<77>>, color |-> <<82, 69, 68>>, upc |-> None, raw |-> [page |-> 1, position |-> 1]],
    \* its style, size and color: style_number="av1 ", size="m", color="Black  Soot", upc="036000291452"
      [style_number |-> <<97, 118, 49, 32>>, size |-> <<109>>, color |-> <<66, 108, 97, 99, 107, 32, 32, 83, 111, 111, 116>>, upc |-> <<48, 51, 54, 48, 48, 48, 50, 57, 49, 52, 53, 50>>, raw |-> [page |-> 1, position |-> 2]],
    \* its style and color: style_number="AV1", size="L", color="BLACK SOOT", upc="0360-0029 1452"
      [style_number |-> <<65, 86, 49>>, size |-> <<76>>, color |-> <<66, 76, 65, 67, 75, 32, 83, 79, 79, 84>>, upc |-> <<48, 51, 54, 48, 45, 48, 48, 50, 57, 32, 49, 52, 53, 50>>, raw |-> [page |-> 1, position |-> 3]],
    \* no style, no size, empty code: style_number=None, size=None, color="BLACK SOOT", upc=""
      [style_number |-> None, size |-> None, color |-> <<66, 76, 65, 67, 75, 32, 83, 79, 79, 84>>, upc |-> <<>>, raw |-> [page |-> 1, position |-> 4]] }

\* hang-tag items, merged likewise
HANG_ITEMS ==
    \* another code: style_number="AV1", size="M", color="BLACK SOOT", upc="036000291453"
    { [style_number |-> <<65, 86, 49>>, size |-> <<77>>, color |-> <<66, 76, 65, 67, 75, 32, 83, 79, 79, 84>>, upc |-> <<48, 51, 54, 48, 48, 48, 50, 57, 49, 52, 53, 51>>, raw |-> [page |-> 1, position |-> 1]],
    \* another style: style_number="AV2", size="M", color=None, upc="036000291452"
      [style_number |-> <<65, 86, 50>>, size |-> <<77>>, color |-> None, upc |-> <<48, 51, 54, 48, 48, 48, 50, 57, 49, 52, 53, 50>>, raw |-> [page |-> 1, position |-> 2]] }

\* expected rows of the spreadsheet, in sheet order: style, size, color and
\* the two expected codes
EXPECTED_ROWS ==
    \* the row of the priority example: style="AV1", size="M", color="BLACK SOOT", care_upc="036000291452", hang_upc="036000291452"
    << [style |-> <<65, 86, 49>>, size |-> <<77>>, color |-> <<66, 76, 65, 67, 75, 32, 83, 79, 79, 84>>, care_upc |-> <<48, 51, 54, 48, 48, 48, 50, 57, 49, 52, 53, 50>>, hang_upc |-> <<48, 51, 54, 48, 48, 48, 50, 57, 49, 52, 53, 50>>],
    \* no style, no codes: style="", size="M", color="BLACK SOOT", care_upc="", hang_upc=""
      [style |-> <<>>, size |-> <<77>>, color |-> <<66, 76, 65, 67, 75, 32, 83, 79, 79, 84>>, care_upc |-> <<>>, hang_upc |-> <<>>],
    \* lower case, grouped code: style=" av1", size="l", color="Red", care_upc="0 36000 29145 2", hang_upc="036000291453"
      [style |-> <<32, 97, 118, 49>>, size |-> <<108>>, color |-> <<82, 101, 100>>, care_upc |-> <<48, 32, 51, 54, 48, 48, 48, 32, 50, 57, 49, 52, 53, 32, 50>>, hang_upc |-> <<48, 51, 54, 48, 48, 48, 50, 57, 49, 52, 53, 51>>],
    \* no hang-tag code: style="AV2", size="S", color="RED", care_upc="4006381333931", hang_upc=""
      [style |-> <<65, 86, 50>>, size |-> <<83>>, color |-> <<82, 69, 68>>, care_upc |-> <<52, 48, 48, 54, 51, 56, 49, 51, 51, 51, 57, 51, 49>>, hang_upc |-> <<>>] >>

\* the sheets drawn: up to MaxRows consecutive rows, from any row on (the
\* rows wrap around)
RowSeqs ==
    {[j \in 1..n |-> EXPECTED_ROWS[((k + j - 2) % Len(EXPECTED_ROWS)) + 1]] :
        k \in 1..Len(EXPECTED_ROWS), n \in 0..MaxRows}

InitValidate ==
    /\ pc = "start"
    /\ NotRaised
    /\ SegmentIdle
    /\ ServiceIdle
    /\ ClassifyIdle
    /\ rows \in RowSeqs
    /\ care_labels \in SeqsUpTo(CARE_ITEMS, MaxItems)
    /\ hang_tags \in SeqsUpTo(HANG_ITEMS, MaxItems)
    /\ validation = NoValidation
    /\ ChecksumIdle
    /\ NormalizeIdle
    /\ ExtractIdle

\* the call: validate_rows and _match_item read their arguments (get,
\* iteration, truth tests) and assign to no list and to no element of one
ValidateRows ==
    /\ pc = "start"
    /\ validation' = validate_rows(rows, ObjectsOf("care_labels", care_labels),
                                    ObjectsOf("hang_tags", hang_tags))
    /\ pc' = "validated"
    /\ UNCHANGED <<code, valid, text, normalized, renormalized>>
    /\ UNCHANGED <<zbar_decode, tag_image, upc_found, label_info>>
    /\ UNCHANGED <<rows, care_labels, hang_tags>>
    /\ UNCHANGED raised
    /\ UNCHANGED classifyVars
    /\ UNCHANGED segmentVars
    /\ UNCHANGED serviceVars

NextValidate == ValidateRows

SpecValidate == InitValidate /\ [][NextValidate]_vars

(***************************************************************************)
(* Classifier harness: documents are classified one after the other, as    *)
(* the upload handler does; history keeps what every call worked on and    *)
(* returned.                                                               *)
(***************************************************************************)
MaxCalls == 3


\* the pages of a document of one US Letter page
ONE_PAGE == <<[width |-> 612, height |-> 792, texts |-> <<>>]>>

\* a document: the text of its first page, the OCR environment it meets and
\* its pages; a long page is paired with the failing OCR engine, which it
\* never calls, and the last document has no page at all
Documents ==
    {[page_text |-> EMPTY_PAGE, env |-> OCR_ENVS[k], pages |-> ONE_PAGE] : k \in {1, 2, 3, 4, 7, 8, 9}}
    \cup {[page_text |-> RN_PAGE, env |-> OCR_ENVS[k], pages |-> ONE_PAGE] : k \in {2, 4}}
    \cup {[page_text |-> WIDE_BLANK_PAGE, env |-> OCR_ENVS[2], pages |-> ONE_PAGE]}
    \cup {[page_text |-> None, env |-> OCR_ENVS[4], pages |-> ONE_PAGE]}
    \cup {[page_text |-> p, env |-> OCR_ENVS[3], pages |-> ONE_PAGE] : p \in LONG_PAGES}
    \cup {[page_text |-> EMPTY_PAGE, env |-> OCR_ENVS[1], pages |-> <<>>]}

InitClassify ==
    /\ pc = "ready"
    /\ NotRaised
    /\ SegmentIdle
    /\ ServiceIdle
    /\ ClassifyIdle
    /\ ChecksumIdle
    /\ NormalizeIdle
    /\ ExtractIdle
    /\ ValidateIdle

ClassifyPdf ==
    /\ pc \in {"ready", "classified", "raised"}
    /\ Len(history) < MaxCalls
    /\ \E doc \in Documents :
           /\ document' = doc
           /\ raised' = classify_pdf_raises(doc)
           /\ IF raised' # ""
              THEN /\ classification' = classification
                   /\ pc' = "raised"
              ELSE /\ classification' = classify_pdf(doc, classification.evidence)
                   /\ pc' = "classified"
           /\ history' = Append(history,
                                [text |-> ClassifiedText(doc, RenderAndOcr(doc.env)),
                                 raised |-> raised',
                                 result |-> classification'])
    /\ UNCHANGED <<code, valid, text, normalized, renormalized>>
    /\ UNCHANGED <<zbar_decode, tag_image, upc_found, label_info>>
    /\ UNCHANGED <<rows, care_labels, hang_tags, validation>>
    /\ UNCHANGED segmentVars
    /\ UNCHANGED serviceVars

NextClassify == ClassifyPdf

SpecClassify == InitClassify /\ [][NextClassify]_vars

(***************************************************************************)
(* Segmenter harness: a document, a configuration and an environment are   *)
(* drawn and extract_care_labels or extract_hang_tags is applied.          *)
(***************************************************************************)
MaxPages == 2

\* embedded texts of a region: 31 characters; 21 characters of which 11 are
\* not whitespace; 7 characters; whitespace only; 14 characters padded to 31
T_LONG == <<77, 32, 40, 56, 45, 49, 48, 41, 32, 82, 78, 35, 49, 50, 51, 52, 53, 32, 77, 97, 100, 101, 32, 73, 110, 32, 67, 104, 105, 110, 97>>  \* 'M (8-10) RN#12345 Made In China'
T_SPACED == <<97, 32, 98, 32, 99, 32, 100, 32, 101, 32, 102, 32, 103, 32, 104, 32, 105, 32, 106, 32, 107>>  \* 'a b c d e f g h i j k'
T_SHORT == <<65, 86, 49, 50, 65, 66, 51>>  \* 'AV12AB3'
T_BLANK == <<32, 32, 10>>  \* '  \n'
T_PADDED == <<32, 32, 32, 65, 86, 49, 50, 65, 66, 51, 32, 115, 105, 122, 101, 32, 76, 32, 32, 32, 32, 32, 32, 32, 32, 32, 32, 32, 32, 32, 32>>  \* '   AV12AB3 size L              '

\* embedded texts with white space beyond ASCII: 14 characters between an em
\* space and six more (21 in all); white space only; and a region the PDF
\* engine returns None for
T_WIDE == <<8195, 65, 86, 49, 50, 65, 66, 51, 32, 115, 105, 122, 101, 32, 76, 12288, 8232, 8195, 12288, 8195, 8195>>
T_EM == <<8195, 12288, 8232>>
T_NONE == None

\* the text of page 1 as a whole: header fields, and a page without text
HEADER_PAGE ==  \* 'Reference #: \n R-77 \nStyle #:AV12AB3\nDate:\nBlac  Soot STRETCH WOVEN DRESS'
    <<82, 101, 102, 101, 114, 101, 110, 99, 101, 32, 35, 58, 32, 10, 32, 82, 45, 55, 55, 32, 10, 83, 116, 121, 108, 101, 32, 35, 58, 65, 86, 49, 50, 65, 66, 51, 10, 68, 97, 116, 101, 58, 10, 66, 108, 97, 99, 32, 32, 83, 111, 111, 116, 32, 83, 84, 82, 69, 84, 67, 72, 32, 87, 79, 86, 69, 78, 32, 68, 82, 69, 83, 83>>

\* header fields behind an em space and a line separator
WIDE_HEADER_PAGE ==  \* 'Reference #:\u2003R-77\u3000\nStyle #:\u2028AV12AB3\nDate:\u2003\nBlack Soot STRETCH WOVEN DRESS'
    <<82, 101, 102, 101, 114, 101, 110, 99, 101, 32, 35, 58, 8195, 82, 45, 55, 55, 12288, 10, 83, 116, 121, 108, 101, 32, 35, 58, 8232, 65, 86, 49, 50, 65, 66, 51, 10, 68, 97, 116, 101, 58, 8195, 10, 66, 108, 97, 99, 107, 32, 83, 111, 111, 116, 32, 83, 84, 82, 69, 84, 67, 72, 32, 87, 79, 86, 69, 78, 32, 68, 82, 69, 83, 83>>

\* what the OCR engine reads from a region
OCR_TEXT == <<88, 76, 32, 40, 49, 54, 45, 49, 56, 41, 32, 65, 86, 57, 88, 49, 32, 48, 51, 54, 48, 48, 48, 50, 57, 49, 52, 53, 50>>  \* 'XL (16-18) AV9X1 036000291452'

\* the pages a document is made of
SHEETS ==
    << \* a wide sheet
      [width |-> 792, height |-> 612,
        texts |-> <<T_LONG, T_LONG, T_SPACED, T_SHORT, T_BLANK, T_PADDED, T_LONG, T_SHORT>>],
      \* a US Letter page, with text in its first columns only
      [width |-> 612, height |-> 792,
        texts |-> <<T_SHORT, T_LONG, T_LONG>>],
      \* a page narrower than the first care-label column
      [width |-> 100, height |-> 50,
        texts |-> <<T_LONG, T_LONG, T_LONG, T_LONG, T_LONG, T_LONG, T_LONG, T_LONG>>] >>

\* a wide sheet whose regions hold white space beyond ASCII
WIDE_SHEET ==
    [width |-> 792, height |-> 612,
        texts |-> <<T_SHORT, T_WIDE, T_EM, T_NONE, T_LONG>>]

\* the environments of the collaborators
SEGMENT_ENVS ==
    << \* everything works: pytesseract reads the image, the barcode decodes
      [render_ok |-> TRUE, pytesseract |-> "returns", which |-> TRUE, run_ok |-> TRUE, output_file |-> TRUE, stdout_utf8 |-> TRUE, file_utf8 |-> TRUE,
        ocr_text |-> OCR_TEXT,
        zbar |-> "decodes", decoded |-> <<Payload(TRUE, <<32, 48, 51, 54, 48, 48, 48, 50, 57, 49, 52, 53, 50, 10>>)>>],
      \* pytesseract raises, no barcode decoder
      [render_ok |-> TRUE, pytesseract |-> "raises", which |-> FALSE, run_ok |-> FALSE, output_file |-> FALSE, stdout_utf8 |-> TRUE, file_utf8 |-> TRUE,
        ocr_text |-> <<>>,
        zbar |-> "absent", decoded |-> <<>>],
      \* no OCR engine at all, the barcode decoder raises
      [render_ok |-> TRUE, pytesseract |-> "absent", which |-> FALSE, run_ok |-> FALSE, output_file |-> FALSE, stdout_utf8 |-> TRUE, file_utf8 |-> TRUE,
        ocr_text |-> <<>>,
        zbar |-> "raises", decoded |-> <<>>],
      \* the tesseract binary reads the image, no barcode in it
      [render_ok |-> TRUE, pytesseract |-> "absent", which |-> TRUE, run_ok |-> TRUE, output_file |-> TRUE, stdout_utf8 |-> TRUE, file_utf8 |-> TRUE,
        ocr_text |-> OCR_TEXT,
        zbar |-> "decodes", decoded |-> <<>>],
      \* the tesseract binary exits with an error
      [render_ok |-> TRUE, pytesseract |-> "absent", which |-> TRUE, run_ok |-> FALSE, output_file |-> FALSE, stdout_utf8 |-> TRUE, file_utf8 |-> TRUE,
        ocr_text |-> <<>>,
        zbar |-> "decodes", decoded |-> <<Payload(FALSE, <<>>), Payload(TRUE, <<88, 49>>)>>],
      \* the tesseract binary leaves no output file
      [render_ok |-> TRUE, pytesseract |-> "absent", which |-> TRUE, run_ok |-> TRUE, output_file |-> FALSE, stdout_utf8 |-> TRUE, file_utf8 |-> TRUE,
        ocr_text |-> <<>>,
        zbar |-> "absent", decoded |-> <<>>],
      \* the region cannot be rendered
      [render_ok |-> FALSE, pytesseract |-> "returns", which |-> TRUE, run_ok |-> TRUE, output_file |-> TRUE, stdout_utf8 |-> TRUE, file_utf8 |-> TRUE,
        ocr_text |-> OCR_TEXT,
        zbar |-> "decodes", decoded |-> <<>>],
      \* the tesseract binary prints bytes that are not UTF-8 and exits with an error
      [render_ok |-> TRUE, pytesseract |-> "absent", which |-> TRUE, run_ok |-> FALSE, output_file |-> FALSE, stdout_utf8 |-> FALSE, file_utf8 |-> TRUE,
        ocr_text |-> <<>>,
        zbar |-> "absent", decoded |-> <<>>],
      \* the output file of the tesseract binary is not UTF-8
      [render_ok |-> TRUE, pytesseract |-> "absent", which |-> TRUE, run_ok |-> TRUE, output_file |-> TRUE, stdout_utf8 |-> TRUE, file_utf8 |-> FALSE,
        ocr_text |-> OCR_TEXT,
        zbar |-> "decodes", decoded |-> <<Payload(TRUE, <<48, 51, 54, 48, 48, 48, 50, 57, 49, 52, 53, 50>>)>>] >>

\* configurations of extract_care_labels
CARE_CONFIGS ==
    { \* the defaults
      CARE_DEFAULTS,
      \* no width override, first column kept, whole page
      [columns |-> 8, skip_first_column |-> FALSE, column_width |-> 0, left_offset |-> 0,
        top_pct |-> 0, bottom_pct |-> 100],
      \* top and bottom ratios exchanged
      [columns |-> 8, skip_first_column |-> TRUE, column_width |-> 88, left_offset |-> 45,
        top_pct |-> 61, bottom_pct |-> 22],
      \* columns wider than the page allows
      [columns |-> 4, skip_first_column |-> TRUE, column_width |-> 300, left_offset |-> 200,
        top_pct |-> 22, bottom_pct |-> 61],
      \* no columns and no width override
      [columns |-> 0, skip_first_column |-> TRUE, column_width |-> 0, left_offset |-> 45,
        top_pct |-> 22, bottom_pct |-> 61] }

\* configurations of extract_hang_tags
HANG_CONFIGS ==
    { \* the defaults
      HANG_DEFAULTS,
      \* four columns, first kept, ratios exchanged
      [columns |-> 4, skip_first_column |-> FALSE, column_width |-> 0, left_offset |-> 0,
        top_pct |-> 92, bottom_pct |-> 22],
      \* no columns
      [columns |-> 0, skip_first_column |-> TRUE, column_width |-> 0, left_offset |-> 0,
        top_pct |-> 22, bottom_pct |-> 92] }


\* configurations of split_care_labels
SPLIT_CONFIGS ==
    { \* the defaults: no width override
      SPLIT_DEFAULTS,
      \* the configuration of main(): a width override and a left offset
      [columns |-> 8, skip_first_column |-> TRUE, column_width |-> 88, left_offset |-> 55,
        top_pct |-> 0, bottom_pct |-> 100],
      \* four columns, first kept, no width override
      [columns |-> 4, skip_first_column |-> FALSE, column_width |-> 0, left_offset |-> 0,
        top_pct |-> 0, bottom_pct |-> 100] }

\* the documents of one to MaxPages pages: consecutive sheets, from any
\* sheet on (the sheets wrap around)
PageSeqs ==
    {[j \in 1..n |-> ((k + j - 2) % Len(SHEETS)) + 1] :
        k \in 1..Len(SHEETS), n \in 1..MaxPages}

\* one-page documents for the header behind wide white space and for the
\* tesseract binary whose output does not decode
WideDocuments ==
    {[page_text |-> pt, env |-> SEGMENT_ENVS[e], pages |-> <<s>>] :
        pt \in {WIDE_HEADER_PAGE, EMPTY_PAGE}, e \in {1, 4, 8, 9}, s \in {SHEETS[1], WIDE_SHEET}}

\* a document without pages
NoPageDocuments ==
    {[page_text |-> HEADER_PAGE, env |-> SEGMENT_ENVS[1], pages |-> <<>>]}

SegmentDocuments ==
    {[page_text |-> pt, env |-> SEGMENT_ENVS[e], pages |-> [k \in DOMAIN ps |-> SHEETS[ps[k]]]] :
        pt \in {HEADER_PAGE, EMPTY_PAGE}, e \in 1..7, ps \in PageSeqs}
    \cup WideDocuments
    \cup NoPageDocuments

\* sheets and configurations without width override where a column starts
\* at the very edge of the page: 61 + 21 * (244 / 28) is 244 and
\* -29 + 7 * (29 / 7) is 0 when computed exactly, and the floats computed are
\* 243.99999999999997 and 3.552713678800501e-15
EDGE_SHEETS ==
    << [width |-> 244, height |-> 10, texts |-> [k \in 1..22 |-> T_LONG]],
       [width |-> 29, height |-> 10, texts |-> [k \in 1..7 |-> T_LONG]] >>

EDGE_CONFIGS ==
    << [columns |-> 28, skip_first_column |-> FALSE, column_width |-> 0, left_offset |-> 61,
        top_pct |-> 0, bottom_pct |-> 100],
       [columns |-> 7, skip_first_column |-> TRUE, column_width |-> 0, left_offset |-> 0 - 29,
        top_pct |-> 22, bottom_pct |-> 61] >>

\* documents of EDGE_SHEETS: one sheet, and one sheet before the other
EdgeDocuments ==
    {[page_text |-> HEADER_PAGE, env |-> SEGMENT_ENVS[e], pages |-> ps] :
        e \in {1, 7},
        ps \in {<<EDGE_SHEETS[1]>>, <<EDGE_SHEETS[2]>>,
                 <<EDGE_SHEETS[1], EDGE_SHEETS[2]>>, <<EDGE_SHEETS[2], EDGE_SHEETS[1]>>}}

InitSegment ==
    /\ pc = "start"
    /\ NotRaised
    /\ \/ extractor = "care" /\ config \in CARE_CONFIGS /\ document \in SegmentDocuments
       \/ extractor = "hang" /\ config \in HANG_CONFIGS /\ document \in SegmentDocuments
       \/ extractor = "split" /\ config \in SPLIT_CONFIGS /\ document \in SegmentDocuments
       \/ /\ extractor \in {"care", "hang", "split"}
          /\ config \in {EDGE_CONFIGS[1], EDGE_CONFIGS[2]}
          /\ document \in EdgeDocuments
    /\ classification = NoClassification
    /\ history = <<>>
    /\ extraction = NoExtraction
    /\ ServiceIdle
    /\ ChecksumIdle
    /\ NormalizeIdle
    /\ ExtractIdle
    /\ ValidateIdle

ExtractItems ==
    /\ pc = "start"
    /\ extractor \in {"care", "hang"}
    /\ \E outcome \in {extract_items(extractor, config, document)} :
           /\ raised' = outcome.raised
           /\ IF outcome.raised # ""
              THEN extraction' = extraction /\ pc' = "raised"
              ELSE extraction' = outcome.value /\ pc' = "extracted"
    /\ UNCHANGED <<code, valid, text, normalized, renormalized>>
    /\ UNCHANGED <<zbar_decode, tag_image, upc_found, label_info>>
    /\ UNCHANGED <<rows, care_labels, hang_tags, validation>>
    /\ UNCHANGED <<document, classification, history, extractor, config>>
    /\ UNCHANGED serviceVars

SplitCareLabels ==
    /\ pc = "start"
    /\ extractor = "split"
    /\ \E outcome \in {split_care_labels(config, document)} :
           /\ raised' = outcome.raised
           /\ IF outcome.raised # ""
              THEN extraction' = extraction /\ pc' = "raised"
              ELSE extraction' = [output_paths |-> outcome.value] /\ pc' = "split"
    /\ UNCHANGED <<code, valid, text, normalized, renormalized>>
    /\ UNCHANGED <<zbar_decode, tag_image, upc_found, label_info>>
    /\ UNCHANGED <<rows, care_labels, hang_tags, validation>>
    /\ UNCHANGED <<document, classification, history, extractor, config>>
    /\ UNCHANGED serviceVars

NextSegment == ExtractItems \/ SplitCareLabels

SpecSegment == InitSegment /\ [][NextSegment]_vars

(***************************************************************************)
(* Merge harness: the items and the parent info of an extraction are       *)
(* drawn, _normalize_items is applied to them.                             *)
(***************************************************************************)
\* items as the field extractors return them
RAW_ITEMS ==
    { \* a care label with a valid code and a composition
      [size |-> <<77>>, size_range |-> <<56, 45, 49, 48>>, rn_number |-> <<49, 50, 51, 52, 53>>,
       upc |-> UPC_VALID, composition |-> <<[percent |-> 60, material |-> <<67, 111, 116, 116, 111, 110>>]>>,
       page |-> 1, position |-> 1],
      \* a hang tag with a candidate that failed the checksum and a decoded barcode
      [upc_candidate |-> UPC_INVALID, barcode |-> EAN_VALID, style_number |-> <<65, 86, 49, 50, 65, 66, 51>>,
       color |-> <<82, 69, 68>>, page |-> 1, position |-> 2],
      \* a candidate only
      [upc_candidate |-> UPC_INVALID, page |-> 1, position |-> 3],
      \* nothing but the provenance
      [page |-> 1, position |-> 4],
      \* a hang tag with a valid code and another decoded barcode
      [size |-> <<76>>, upc |-> UPC_VALID, barcode |-> EAN_VALID, page |-> 2, position |-> 1] }

\* parent infos as extract_parent_info returns them
PARENT_INFOS ==
    { EmptyDict,
      [style_number |-> <<65, 86, 80, 57>>, color |-> <<66, 76, 65, 67, 75, 32, 83, 79, 79, 84>>],
      [reference_number |-> <<82, 45, 55, 55>>, color |-> <<66, 76, 65, 67, 75, 32, 83, 79, 79, 84>>] }

InitMerge ==
    /\ pc = "start"
    /\ NotRaised
    /\ metadata \in [parent_info : PARENT_INFOS, items : SeqsUpTo(RAW_ITEMS, MaxItems)]
    /\ merged = <<>>
    /\ SheetIdle
    /\ HandlerIdle
    /\ SegmentIdle
    /\ ClassifyIdle
    /\ ChecksumIdle
    /\ NormalizeIdle
    /\ ExtractIdle
    /\ ValidateIdle

NormalizeItems ==
    /\ pc = "start"
    /\ merged' = _normalize_items(metadata.items, metadata.parent_info)
    /\ pc' = "merged"
    /\ UNCHANGED <<code, valid, text, normalized, renormalized>>
    /\ UNCHANGED <<zbar_decode, tag_image, upc_found, label_info>>
    /\ UNCHANGED <<rows, care_labels, hang_tags, validation>>
    /\ UNCHANGED raised
    /\ UNCHANGED classifyVars
    /\ UNCHANGED segmentVars
    /\ UNCHANGED <<metadata, sheetVars, handlerVars>>

NextMerge == NormalizeItems

SpecMerge == InitMerge /\ [][NextMerge]_vars

(***************************************************************************)
(* Harness for the /extract handler: one action per step of the loop       *)
(***************************************************************************)
MaxFiles == 2

\* first pages with embedded text: classified care_label, rfid and unknown
CARE_LABEL_PAGE == <<66, 108, 97, 99, 107, 32, 32, 83, 111, 111, 116, 32, 119, 97, 108, 109, 97, 114, 116, 46, 99, 111, 109, 47, 97, 118, 105, 97, 32, 82, 78, 35, 49, 50, 51, 52, 53, 32, 77, 97, 100, 101, 32, 73, 110>>
RFID_PAGE == <<65, 86, 73, 65, 32, 83, 84, 82, 69, 84, 67, 72, 32, 83, 97, 108, 115, 97, 10, 68, 101, 108, 105, 103, 104, 116, 32, 82, 101, 103, 105, 115, 116, 101, 114, 101, 100, 32, 84, 114, 97, 100, 101, 109, 97, 114, 107, 32, 72, 101, 99, 104, 111, 32, 101, 110>>
UNKNOWN_PAGE == <<83, 105, 122, 101, 32, 77, 32, 49, 48, 48, 37, 32, 99, 111, 116, 116, 111, 110, 32, 109, 97, 99, 104, 105, 110, 101, 32, 119, 97, 115, 104, 32, 99, 111, 108, 100>>

Upload(filename, content_type, page_text, e, p, remove_raises) ==
    [filename |-> filename, content_type |-> content_type,
     document |-> [page_text |-> page_text, env |-> SEGMENT_ENVS[e],
                   pages |-> IF p = 0 THEN <<>> ELSE <<SHEETS[p]>>],
     remove_raises |-> remove_raises]

\* OSError and the built-in exceptions derived from it: what except OSError
\* catches
OS_ERRORS ==
    {"OSError", "BlockingIOError", "ChildProcessError", "ConnectionError",
     "BrokenPipeError", "ConnectionAbortedError", "ConnectionRefusedError",
     "ConnectionResetError", "FileExistsError", "FileNotFoundError",
     "InterruptedError", "IsADirectoryError", "NotADirectoryError",
     "PermissionError", "ProcessLookupError", "TimeoutError"}

\* the files a request can hold
UPLOADS ==
    { \* a care-label sheet
       Upload("care.pdf", "application/pdf", CARE_LABEL_PAGE, 1, 1, ""),
       \* a hang-tag sheet
       Upload("rfid.pdf", "application/x-pdf", RFID_PAGE, 1, 2, ""),
       \* a sheet of unknown type whose regions give care-label items
       Upload("unknown.pdf", "application/pdf", UNKNOWN_PAGE, 4, 2, ""),
       \* a sheet of unknown type too narrow for any care-label region
       Upload("narrow.pdf", "application/pdf", HEADER_PAGE, 1, 3, ""),
       \* a care-label sheet whose regions cannot be rendered
       Upload("broken.pdf", "application/pdf", CARE_LABEL_PAGE, 7, 1, ""),
       \* a scanned sheet read while pytesseract raises
       Upload("scan.pdf", "application/pdf", EMPTY_PAGE, 2, 1, ""),
       \* a PDF without pages
       Upload("empty.pdf", "application/pdf", EMPTY_PAGE, 1, 0, ""),
       \* a care-label sheet whose temporary copy os.remove may not delete
       Upload("locked.pdf", "application/pdf", CARE_LABEL_PAGE, 1, 1, "PermissionError"),
       \* a care-label sheet whose regions cannot be rendered and whose
       \* temporary copy os.remove cannot delete either
       Upload("stuck.pdf", "application/pdf", CARE_LABEL_PAGE, 7, 1, "OSError"),
       \* not a PDF
       Upload("photo.png", "image/png", EMPTY_PAGE, 1, 1, "") }

NoResponse == [care_labels |-> <<>>, hang_tags |-> <<>>]

InitHandler ==
    /\ pc = "start"
    /\ NotRaised
    /\ uploads \in SeqsUpTo(UPLOADS, MaxFiles)
    /\ file_index = 0
    /\ tmp_files = {}
    /\ calls = <<>>
    /\ pending = ""
    /\ response = NoResponse
    /\ classification = NoClassification
    /\ document = [page_text |-> <<>>, env |-> OCR_ENVS[1]]
    /\ history = <<>>
    /\ MergeIdle
    /\ SheetIdle
    /\ SegmentIdle
    /\ ChecksumIdle
    /\ NormalizeIdle
    /\ ExtractIdle
    /\ ValidateIdle

\* if not files: raise HTTPException; else the loop starts
BeginExtract ==
    /\ pc = "start"
    /\ IF uploads = <<>>
       THEN raised' = "HTTPException" /\ pc' = "failed" /\ file_index' = file_index
       ELSE raised' = raised /\ pc' = "check" /\ file_index' = 1
    /\ UNCHANGED <<code, valid, text, normalized, renormalized>>
    /\ UNCHANGED <<zbar_decode, tag_image, upc_found, label_info>>
    /\ UNCHANGED <<rows, care_labels, hang_tags, validation>>
    /\ UNCHANGED <<classifyVars, segmentVars, sheetVars, mergeVars>>
    /\ UNCHANGED <<uploads, tmp_files, calls, pending, response>>

\* the content type of the next file is checked before anything is saved
CheckContentType ==
    /\ pc = "check"
    /\ file_index <= Len(uploads)
    /\ IF uploads[file_index].content_type \notin PDF_TYPES
       THEN raised' = "HTTPException" /\ pc' = "failed"
       ELSE raised' = raised /\ pc' = "save"
    /\ UNCHANGED <<code, valid, text, normalized, renormalized>>
    /\ UNCHANGED <<zbar_decode, tag_image, upc_found, label_info>>
    /\ UNCHANGED <<rows, care_labels, hang_tags, validation>>
    /\ UNCHANGED <<classifyVars, segmentVars, sheetVars, mergeVars>>
    /\ UNCHANGED handlerVars

\* after the last file the two collections are returned
ReturnResponse ==
    /\ pc = "check"
    /\ file_index > Len(uploads)
    /\ pc' = "returned"
    /\ UNCHANGED <<code, valid, text, normalized, renormalized>>
    /\ UNCHANGED <<zbar_decode, tag_image, upc_found, label_info>>
    /\ UNCHANGED <<rows, care_labels, hang_tags, validation>>
    /\ UNCHANGED raised
    /\ UNCHANGED <<classifyVars, segmentVars, sheetVars, mergeVars>>
    /\ UNCHANGED handlerVars

\* tmp_path = _save_upload(file): the temporary copy exists from here on
SaveUpload ==
    /\ pc = "save"
    /\ tmp_files' = tmp_files \cup {file_index}
    /\ calls' = Append(calls, Call("save", file_index, "", 0, ""))
    /\ pc' = "classify"
    /\ UNCHANGED <<code, valid, text, normalized, renormalized>>
    /\ UNCHANGED <<zbar_decode, tag_image, upc_found, label_info>>
    /\ UNCHANGED <<rows, care_labels, hang_tags, validation>>
    /\ UNCHANGED raised
    /\ UNCHANGED <<classifyVars, segmentVars, sheetVars, mergeVars>>
    /\ UNCHANGED <<uploads, file_index, pending, response>>

\* classification = classify_pdf(tmp_path), and the branch on its type
ClassifyUpload ==
    /\ pc = "classify"
    /\ \E error \in {classify_pdf_raises(uploads[file_index].document)} :
         IF error # ""
         THEN /\ pending' = error
              /\ classification' = classification
              /\ calls' = Append(calls, Call("classify", file_index, "", 0, error))
              /\ pc' = "finally"
         ELSE \E result \in {classify_pdf(uploads[file_index].document, <<>>)} :
              /\ pending' = pending
              /\ classification' = result
              /\ calls' = Append(calls, Call("classify", file_index, result.type, 0, ""))
              /\ pc' = FirstPath(result.type)
    /\ UNCHANGED <<code, valid, text, normalized, renormalized>>
    /\ UNCHANGED <<zbar_decode, tag_image, upc_found, label_info>>
    /\ UNCHANGED <<rows, care_labels, hang_tags, validation>>
    /\ UNCHANGED raised
    /\ UNCHANGED <<document, history, segmentVars, sheetVars, mergeVars>>
    /\ UNCHANGED <<uploads, file_index, tmp_files, response>>

\* metadata = extract_care_labels(tmp_path), then either the extension of
\* care_labels or the fall-back to extract_hang_tags
ExtractCareLabels ==
    /\ pc = "care"
    /\ \E outcome \in {extract_items("care", CARE_DEFAULTS, uploads[file_index].document)} :
         IF outcome.raised # ""
         THEN /\ pending' = outcome.raised
              /\ metadata' = metadata
              /\ response' = response
              /\ calls' = Append(calls, Call("care", file_index, classification.type, 0, outcome.raised))
              /\ pc' = "finally"
         ELSE \E found \in {Metadata(outcome.value)} :
              /\ pending' = pending
              /\ metadata' = found
              /\ IF FallsBackToHangTags(classification.type, found.items)
                 THEN /\ response' = response
                      /\ calls' = Append(calls, Call("care", file_index, classification.type,
                                                      Len(found.items), ""))
                      /\ pc' = "hang"
                 ELSE /\ response' = [response EXCEPT !.care_labels =
                                         @ \o _normalize_items(found.items, found.parent_info)]
                      /\ calls' = calls \o
                            <<Call("care", file_index, classification.type, Len(found.items), ""),
                              Call("extend_care", file_index, classification.type, Len(found.items), "")>>
                      /\ pc' = "finally"
    /\ UNCHANGED <<code, valid, text, normalized, renormalized>>
    /\ UNCHANGED <<zbar_decode, tag_image, upc_found, label_info>>
    /\ UNCHANGED <<rows, care_labels, hang_tags, validation>>
    /\ UNCHANGED raised
    /\ UNCHANGED <<classifyVars, segmentVars, sheetVars, merged>>
    /\ UNCHANGED <<uploads, file_index, tmp_files>>

\* metadata = extract_hang_tags(tmp_path) and the extension of hang_tags
ExtractHangTags ==
    /\ pc = "hang"
    /\ \E outcome \in {extract_items("hang", HANG_DEFAULTS, uploads[file_index].document)} :
         IF outcome.raised # ""
         THEN /\ pending' = outcome.raised
              /\ metadata' = metadata
              /\ response' = response
              /\ calls' = Append(calls, Call("hang", file_index, classification.type, 0, outcome.raised))
              /\ pc' = "finally"
         ELSE \E found \in {Metadata(outcome.value)} :
              /\ pending' = pending
              /\ metadata' = found
              /\ response' = [response EXCEPT !.hang_tags =
                                 @ \o _normalize_items(found.items, found.parent_info)]
              /\ calls' = calls \o
                    <<Call("hang", file_index, classification.type, Len(found.items), ""),
                      Call("extend_hang", file_index, classification.type, Len(found.items), "")>>
              /\ pc' = "finally"
    /\ UNCHANGED <<code, valid, text, normalized, renormalized>>
    /\ UNCHANGED <<zbar_decode, tag_image, upc_found, label_info>>
    /\ UNCHANGED <<rows, care_labels, hang_tags, validation>>
    /\ UNCHANGED raised
    /\ UNCHANGED <<classifyVars, segmentVars, sheetVars, merged>>
    /\ UNCHANGED <<uploads, file_index, tmp_files>>

\* finally: try: os.remove(tmp_path) except OSError: pass.  The copy is
\* deleted unless os.remove raises.  OSError and its subclasses, which are
\* what os.remove raises for a path, are swallowed: the copy stays on disk,
\* and the exception of the try block goes on to the caller, or the loop
\* goes on to the next file, as after a removal.  Any other exception would
\* leave the finally clause and end the request.
RemoveTemp ==
    /\ pc = "finally"
    /\ tmp_files' = IF uploads[file_index].remove_raises = ""
                    THEN tmp_files \ {file_index}
                    ELSE tmp_files
    /\ calls' = Append(calls, Call("remove", file_index, "", 0,
                                    uploads[file_index].remove_raises))
    /\ IF uploads[file_index].remove_raises \notin OS_ERRORS \cup {""}
       THEN /\ raised' = uploads[file_index].remove_raises
            /\ pc' = "failed" /\ file_index' = file_index
       ELSE IF pending # ""
       THEN raised' = pending /\ pc' = "failed" /\ file_index' = file_index
       ELSE raised' = raised /\ pc' = "check" /\ file_index' = file_index + 1
    /\ UNCHANGED <<code, valid, text, normalized, renormalized>>
    /\ UNCHANGED <<zbar_decode, tag_image, upc_found, label_info>>
    /\ UNCHANGED <<rows, care_labels, hang_tags, validation>>
    /\ UNCHANGED <<classifyVars, segmentVars, sheetVars, mergeVars>>
    /\ UNCHANGED <<uploads, pending, response>>

NextHandler ==
    \/ BeginExtract
    \/ CheckContentType
    \/ ReturnResponse
    \/ SaveUpload
    \/ ClassifyUpload
    \/ ExtractCareLabels
    \/ ExtractHangTags
    \/ RemoveTemp

SpecHandler == InitHandler /\ [][NextHandler]_vars

(***************************************************************************)
(* Harness for read_spreadsheet                                            *)
(***************************************************************************)
\* the header rows of the sheets
HEADERS ==
    { \* 'Style', 'Size', 'Color', 'Care Label UPC', 'Hang Tag UPC'
      <<<<83, 116, 121, 108, 101>>, <<83, 105, 122, 101>>, <<67, 111, 108, 111, 114>>, <<67, 97, 114, 101, 32, 76, 97, 98, 101, 108, 32, 85, 80, 67>>, <<72, 97, 110, 103, 32, 84, 97, 103, 32, 85, 80, 67>>>>,
      \* 'Style #', 'UPC'
      <<<<83, 116, 121, 108, 101, 32, 35>>, <<85, 80, 67>>>>,
      \* 'Style', 'RFID UPC'
      <<<<83, 116, 121, 108, 101>>, <<82, 70, 73, 68, 32, 85, 80, 67>>>>,
      \* 'Style', 'Hang Tag UPC', 'Care Label UPC'
      <<<<83, 116, 121, 108, 101>>, <<72, 97, 110, 103, 32, 84, 97, 103, 32, 85, 80, 67>>, <<67, 97, 114, 101, 32, 76, 97, 98, 101, 108, 32, 85, 80, 67>>>>,
      \* 'Style', 'Care UPC', 'UPC'
      <<<<83, 116, 121, 108, 101>>, <<67, 97, 114, 101, 32, 85, 80, 67>>, <<85, 80, 67>>>>,
      \* 'STYLE', 'Size', 'Colour'
      <<<<83, 84, 89, 76, 69>>, <<83, 105, 122, 101>>, <<67, 111, 108, 111, 117, 114>>>>,
      \* 'UPC', 'upc ', 'Care-Label'
      <<<<85, 80, 67>>, <<117, 112, 99, 32>>, <<67, 97, 114, 101, 45, 76, 97, 98, 101, 108>>>>,
      \* 'Style', 'S\u0130ze', 'C\u00e4re UPC': a capital I with a dot, an a with a diaeresis
      <<<<83, 116, 121, 108, 101>>, <<83, 304, 122, 101>>, <<67, 228, 114, 101, 32, 85, 80, 67>>>> }

\* the cells of the sheets, as str() gives them
CELLS ==
    << \* 'AV1'
      <<65, 86, 49>>,
      \* '036000291452'
      <<48, 51, 54, 48, 48, 48, 50, 57, 49, 52, 53, 50>>,
      \* an empty cell: nan
      <<110, 97, 110>>,
      \* the number 4006381333931
      <<52, 48, 48, 54, 51, 56, 49, 51, 51, 51, 57, 51, 49>>,
      \* ' 0 36000-29145 3 '
      <<32, 48, 32, 51, 54, 48, 48, 48, 45, 50, 57, 49, 52, 53, 32, 51, 32>>,
      \* 'av1 036' behind an em space, its digits Arabic-Indic
      <<8195, 97, 118, 1633, 32, 1632, 1635, 1638>> >>

\* the data rows drawn for a header: up to MaxRows consecutive rows, the
\* cells of row i being consecutive cells from cell k + i - 1 on (the cells
\* wrap around)
DataRows(columns) ==
    {[i \in 1..n |-> [j \in 1..Len(columns) |-> CELLS[((k + i + j - 3) % Len(CELLS)) + 1]]] :
        k \in 1..Len(CELLS), n \in 0..MaxRows}

InitSpreadsheet ==
    /\ pc = "start"
    /\ NotRaised
    /\ \E columns \in HEADERS : sheet \in [columns : {columns}, data : DataRows(columns)]
    /\ sheet_rows = <<>>
    /\ MergeIdle
    /\ HandlerIdle
    /\ SegmentIdle
    /\ ClassifyIdle
    /\ ChecksumIdle
    /\ NormalizeIdle
    /\ ExtractIdle
    /\ ValidateIdle

ReadSpreadsheet ==
    /\ pc = "start"
    /\ sheet_rows' = read_spreadsheet(sheet)
    /\ pc' = "read"
    /\ UNCHANGED <<code, valid, text, normalized, renormalized>>
    /\ UNCHANGED <<zbar_decode, tag_image, upc_found, label_info>>
    /\ UNCHANGED <<rows, care_labels, hang_tags, validation>>
    /\ UNCHANGED raised
    /\ UNCHANGED <<classifyVars, segmentVars, mergeVars, handlerVars>>
    /\ UNCHANGED sheet

NextSpreadsheet == ReadSpreadsheet

SpecSpreadsheet == InitSpreadsheet /\ [][NextSpreadsheet]_vars

(***************************************************************************)
(* Properties of is_valid_upc_ean                                          *)
(***************************************************************************)
\* a string of decimal digits, of any script, not empty
IsDecimalString(s) == s # <<>> /\ \A i \in 1..Len(s) : IsDecimal(s[i])

\* the value of a decimal digit: what it lies behind the zero of its script
DigitValue(c) == CHOOSE v \in 0..9 : (c - v) \in DECIMAL_ZEROS

RECURSIVE SumDigitsAt(_, _)
SumDigitsAt(s, P) ==
    IF P = {} THEN 0
    ELSE LET i == CHOOSE j \in P : TRUE
         IN DigitValue(s[i]) + SumDigitsAt(s, P \ {i})

\* reference UPC-A check digit: positions counted from 1, odd positions x3
RefCheckUpcA(s) ==
    LET S == 3 * SumDigitsAt(s, {1, 3, 5, 7, 9, 11}) + SumDigitsAt(s, {2, 4, 6, 8, 10})
    IN (10 - (S % 10)) % 10

\* reference EAN-13 check digit: positions counted from 1, even positions x3
RefCheckEan13(s) ==
    LET S == SumDigitsAt(s, {1, 3, 5, 7, 9, 11}) + 3 * SumDigitsAt(s, {2, 4, 6, 8, 10, 12})
    IN (10 - (S % 10)) % 10

\* C1: a 12-digit code is valid exactly when its last digit is the reference
\* UPC-A check digit of its 11 body digits, a 13-digit code exactly when its
\* last digit is the reference EAN-13 check digit of its 12 body digits;
\* "036000291452" is valid and "036000291453" is not.
C1_ChecksumMatchesReference ==
    pc = "checked" =>
        /\ (IsDecimalString(code) /\ Len(code) = 12) =>
               (valid <=> DigitValue(code[12]) = RefCheckUpcA(code))
        /\ (IsDecimalString(code) /\ Len(code) = 13) =>
               (valid <=> DigitValue(code[13]) = RefCheckEan13(code))
        /\ (code = UPC_VALID => valid)
        /\ (code = UPC_INVALID => ~valid)

C1_Witness == pc = "checked" /\ code = UPC_VALID /\ valid

(***************************************************************************)
(* Properties of normalize_text                                            *)
(***************************************************************************)
\* positions of the digits of s, in order
RECURSIVE DigitPositionsFrom(_, _)
DigitPositionsFrom(s, i) ==
    IF i > Len(s) THEN <<>>
    ELSE IF IsDigit(s[i]) THEN <<i>> \o DigitPositionsFrom(s, i + 1)
         ELSE DigitPositionsFrom(s, i + 1)

DigitPositions(s) == DigitPositionsFrom(s, 1)

\* a digit, whitespace, then a digit somewhere in s
HasSplitDigits(s) ==
    \E i \in 1..Len(s) :
        /\ IsDigit(s[i])
        /\ SpaceRun(s, i + 1) >= 1
        /\ i + 1 + SpaceRun(s, i + 1) <= Len(s)
        /\ IsDigit(s[i + 1 + SpaceRun(s, i + 1)])

\* C5: normalize_text(normalize_text(x)) = normalize_text(x) for every x.
C5_Idempotent == pc = "renormalized" => renormalized = normalized

\* C6: the output of normalize_text holds no digit followed by whitespace and
\* another digit, and normalize_text("123 456 7890 12") = "123456789012".
C6_NoSplitDigitsLeft ==
    pc = "normalized" =>
        /\ ~HasSplitDigits(normalized)
        /\ (text = GROUPED_DIGITS => normalized = JOINED_DIGITS)

\* C7 as claimed: two consecutive digits of the input that are separated by two
\* or more non-digit characters are not adjacent in the output.
C7_NoMergeAcrossTwoNonDigits ==
    pc = "normalized" =>
        LET p == DigitPositions(text)
            q == DigitPositions(normalized)
        IN /\ Len(p) = Len(q)
           /\ \A k \in 1..(Len(p) - 1) :
                  p[k + 1] - p[k] >= 3 => q[k + 1] - q[k] >= 2

\* the characters between positions a and b hold a printable non-whitespace one
HardSeparated(s, a, b) ==
    \E i \in (a + 1)..(b - 1) : IsPrintable(s[i]) /\ ~IsSpace(s[i])

\* C7 amended: two consecutive digits of the input that are separated by
\* characters of which at least one is printable and not whitespace are still
\* separated by a non-digit character in the output.
C7_NoMergeAcrossPrintable ==
    pc = "normalized" =>
        LET p == DigitPositions(text)
            q == DigitPositions(normalized)
        IN /\ Len(p) = Len(q)
           /\ \A k \in 1..(Len(p) - 1) :
                  HardSeparated(text, p[k], p[k + 1]) =>
                      /\ q[k + 1] - q[k] >= 2
                      /\ HardSeparated(normalized, q[k], q[k + 1])

\* "1 x2" keeps its digits apart
C7_Witness ==
    /\ pc = "normalized"
    /\ text = <<49, 32, 120, 50>>
    /\ normalized = <<49, 32, 120, 50>>

\* C8: the output of normalize_text holds only printable ASCII, no two
\* consecutive whitespace characters, no leading or trailing space, and is
\* empty for the empty input.
NormalizedShape(s) ==
    /\ \A i \in 1..Len(s) : IsPrintable(s[i])
    /\ \A i \in 1..(Len(s) - 1) : ~(IsSpace(s[i]) /\ IsSpace(s[i + 1]))
    /\ s # <<>> => (~IsSpace(s[1]) /\ ~IsSpace(s[Len(s)]))

C8_NormalizedShape ==
    /\ pc \in {"normalized", "renormalized"} =>
           /\ NormalizedShape(normalized)
           /\ (text = <<>> => normalized = <<>>)
    /\ pc = "renormalized" => NormalizedShape(renormalized)

\* " \0x\t\t" is cleaned to "x"
C8_Witness ==
    /\ pc = "normalized"
    /\ text = <<32, 0, 120, 9, 9>>
    /\ normalized = <<120>>

(***************************************************************************)
(* Properties of the UPC extractors and the field extractors               *)
(***************************************************************************)
\* the reference check of a 12- or 13-digit string
RefValid(c) ==
    /\ IsDigitString(c)
    /\ \/ Len(c) = 12 /\ DigitValue(c[12]) = RefCheckUpcA(c)
       \/ Len(c) = 13 /\ DigitValue(c[13]) = RefCheckEan13(c)

\* C2: a record of extract_care_label_info or extract_tag_info never holds
\* both upc and upc_candidate; upc is present exactly when a candidate was
\* found and passes the checksum, upc_candidate exactly when one was found
\* and fails it; without a candidate neither key is present.
C2_UpcOrCandidate ==
    pc \in {"care_info", "tag_info"} =>
        LET found == extract_upc_candidate(normalize_text(text))
        IN /\ ~("upc" \in DOMAIN label_info /\ "upc_candidate" \in DOMAIN label_info)
           /\ "upc" \in DOMAIN label_info <=> (found # <<>> /\ RefValid(found))
           /\ "upc_candidate" \in DOMAIN label_info <=> (found # <<>> /\ ~RefValid(found))
           /\ "upc" \in DOMAIN label_info => label_info["upc"] = found
           /\ "upc_candidate" \in DOMAIN label_info => label_info["upc_candidate"] = found

\* a code that fails the checksum is kept as upc_candidate
C2_Witness ==
    /\ pc = "care_info"
    /\ "upc_candidate" \in DOMAIN label_info
    /\ "upc" \notin DOMAIN label_info
    /\ label_info["upc_candidate"] = UPC_INVALID

\* "L (10-12) RN#12345 "
C9_PREFIX == <<76, 32, 40, 49, 48, 45, 49, 50, 41, 32, 82, 78, 35, 49, 50, 51, 52, 53, 32>>

\* C9: the region text "L (10-12) RN#12345 " followed by a 12- or 13-digit
\* code yields size "L", size_range "10-12", rn_number "12345" and the code
\* under upc when its checksum is valid, under upc_candidate when it is not.
C9_EndToEnd ==
    pc = "care_info" =>
        \A c \in {UPC_VALID, UPC_INVALID, EAN_VALID, EAN_INVALID} :
            text = C9_PREFIX \o c =>
                /\ Get(label_info, "size") = <<76>>
                /\ Get(label_info, "size_range") = <<49, 48, 45, 49, 50>>
                /\ Get(label_info, "rn_number") = <<49, 50, 51, 52, 53>>
                /\ RefValid(c) =>
                       Get(label_info, "upc") = c /\ "upc_candidate" \notin DOMAIN label_info
                /\ ~RefValid(c) =>
                       Get(label_info, "upc_candidate") = c /\ "upc" \notin DOMAIN label_info

\* C10: extract_upc_candidate returns the empty string or an all-digit string
\* of length 12 or 13, whatever its checksum; extract_valid_upc returns that
\* candidate when it is non-empty and passes the checksum, else the empty
\* string.
C10_CandidateAndValid ==
    /\ pc = "candidate" =>
           \/ upc_found = <<>>
           \/ IsDigitString(upc_found) /\ Len(upc_found) \in {12, 13}
    /\ pc = "valid_upc" =>
           LET found == extract_upc_candidate(text)
           IN upc_found = IF found # <<>> /\ RefValid(found) THEN found ELSE <<>>

\* a candidate that fails the checksum is still returned by extract_upc_candidate
C10_Witness == pc = "candidate" /\ upc_found = UPC_INVALID

(***************************************************************************)
(* Properties of the reconciliation engine                                 *)
(***************************************************************************)
\* the keys a rule compares besides the style, rules in priority order
RULE_KEYS == << {"size", "color"}, {"size"}, {"color"}, {} >>
RULE_NAMES == <<"style+size+color", "style+size", "style+color", "style">>

\* the item satisfies rule k for the row: equal non-empty styles, and equal
\* values under every key of the rule, all compared normalized
Satisfies(item, row, k) ==
    /\ _normalize_value(row["style"]) # <<>>
    /\ _normalize_value(item["style_number"]) = _normalize_value(row["style"])
    /\ \A key \in RULE_KEYS[k] : _normalize_value(item[key]) = _normalize_value(row[key])

\* positions of the items that satisfy rule k
Satisfying(items, row, k) == {i \in 1..Len(items) : Satisfies(items[i], row, k)}

SetMin(S) == CHOOSE m \in S : \A n \in S : m <= n

\* the side of a result names the highest-priority rule some item satisfies
\* and the first item of the list that satisfies it
PriorityRespected(side, items, row) ==
    \A k \in 1..4 :
        (/\ Satisfying(items, row, k) # {}
         /\ \A j \in 1..(k - 1) : Satisfying(items, row, j) = {})
        => /\ side.match = RULE_NAMES[k]
           /\ side.item # NoneItem
           /\ side.item.value = items[SetMin(Satisfying(items, row, k))]
           /\ side.item.at[2] = SetMin(Satisfying(items, row, k))

\* C3: for a row with non-empty style, _match_item returns the level of the
\* highest-priority rule that some item satisfies and the first item in list
\* order that satisfies that rule, even when an item satisfying only a
\* lower-priority rule comes earlier.
C3_MatchPriority ==
    pc = "validated" =>
        \A i \in 1..Len(rows) :
            /\ PriorityRespected(validation.results[i].care_label, care_labels, rows[i])
            /\ PriorityRespected(validation.results[i].hang_tag, hang_tags, rows[i])

\* a style+size item listed before a style+size+color item: the latter wins
C3_Witness ==
    /\ pc = "validated"
    /\ Len(rows) >= 1 /\ Len(care_labels) = 2
    /\ Satisfies(care_labels[1], rows[1], 2) /\ ~Satisfies(care_labels[1], rows[1], 1)
    /\ Satisfies(care_labels[2], rows[1], 1)
    /\ validation.results[1].care_label.match = "style+size+color"
    /\ validation.results[1].care_label.item.value = care_labels[2]
    /\ validation.results[1].care_label.item.at = <<"care_labels", 2>>

\* the digits of a code, none for a missing one
DigitsOf(v) == IF v = None THEN <<>> ELSE SelectSeq(v, IsDecimal)

\* upc_matches of a side is true exactly when the digits of the expected code
\* and of the matched item's code are both non-empty and equal
UpcVerdictRight(side, expected) ==
    LET actual == IF side.item = NoneItem THEN <<>> ELSE DigitsOf(side.item.value["upc"])
    IN side.upc_matches <=>
           (DigitsOf(expected) # <<>> /\ actual # <<>> /\ DigitsOf(expected) = actual)

\* C4: in every result, on both sides, upc_matches is true if and only if the
\* digits-only expected and actual codes are both non-empty and equal; it is
\* false when either is empty, also when both are or when no item matched.
C4_UpcMatches ==
    pc = "validated" =>
        \A i \in 1..Len(rows) :
            /\ UpcVerdictRight(validation.results[i].care_label, rows[i]["care_upc"])
            /\ UpcVerdictRight(validation.results[i].hang_tag, rows[i]["hang_upc"])

\* one row: the care-label code agrees after normalisation although written
\* differently; the hang-tag side matched no item, so its actual code is empty
C4_Witness ==
    /\ pc = "validated"
    /\ Len(rows) >= 1
    /\ validation.results[1].care_label.upc_matches
    /\ validation.results[1].care_label.item.value["upc"] # rows[1]["care_upc"]
    /\ validation.results[1].hang_tag.item = NoneItem
    /\ DigitsOf(rows[1]["hang_upc"]) # <<>>
    /\ ~validation.results[1].hang_tag.upc_matches


(***************************************************************************)
(* Properties of is_valid_upc_ean on inputs that are not codes             *)
(***************************************************************************)
\* C11: for every input string (the empty string, strings with non-digit
\* characters, digit strings of a length other than 12 or 13)
\* is_valid_upc_ean returns false as a value and never raises an error.
C11_FalseNeverRaises ==
    pc # "start" =>
        /\ raised = ""
        /\ (~(isdigit(code) /\ Len(code) \in {12, 13}) => valid = FALSE)

(***************************************************************************)
(* Properties of classify_pdf                                              *)
(***************************************************************************)
\* the last call of classify_pdf returned
Classified == pc = "classified"

\* C12: classify_pdf returns type "unknown" exactly when care_score and
\* rfid_score are both zero; otherwise "care_label" when care_score >=
\* rfid_score and "rfid" when care_score < rfid_score, so that equal non-zero
\* scores resolve to "care_label".
C12_DecisionRule ==
    Classified =>
        LET c == classification
            none == c.care_score = 0 /\ c.rfid_score = 0
        IN /\ (c.type = "unknown" <=> none)
           /\ (~none /\ c.care_score >= c.rfid_score => c.type = "care_label")
           /\ (c.care_score < c.rfid_score => c.type = "rfid")

\* a tie of non-zero scores that went to the care label
C12_Witness ==
    /\ Classified
    /\ classification.care_score = 2
    /\ classification.rfid_score = 2
    /\ classification.type = "care_label"

\* the patterns of a list that match the text s, in list order
MatchingPatterns(s, patterns) ==
    LET hit == SelectSeq(patterns, LAMBDA p : PatternSearch(s, p))
    IN [k \in 1..Len(hit) |-> hit[k].pattern]

\* the normalized text the last call searched
SearchedText == normalize_text(history[Len(history)].text)

\* C13: in every ClassificationResult care_score is the number of entries of
\* evidence["care_label"] and rfid_score that of evidence["rfid"]; a pattern
\* contributes exactly 1 when it matches and nothing otherwise, the evidence
\* lists hold exactly the matching patterns in list order, and both scores
\* lie in 0..6.
C13_ScoresCountEvidence ==
    Classified =>
        LET c == classification
        IN /\ c.care_score = Len(c.evidence.care_label)
           /\ c.rfid_score = Len(c.evidence.rfid)
           /\ c.evidence.care_label = MatchingPatterns(SearchedText, care_patterns)
           /\ c.evidence.rfid = MatchingPatterns(SearchedText, rfid_patterns)
           /\ c.care_score \in 0..6
           /\ c.rfid_score \in 0..6

\* one care-label pattern of six and two hang-tag patterns of six matched
C13_Witness ==
    /\ Classified
    /\ classification.evidence.care_label = <<"\\bRN#?\\b">>
    /\ classification.evidence.rfid =
           <<"Find more at Walmart\\.com", "\\bBLACK\\s+SOOT\\b">>
    /\ classification.care_score = 1
    /\ classification.rfid_score = 2

\* C14: classification is deterministic and keeps no state between calls:
\* two classifications of the same page text, in any order and with any
\* other classifications in between, yield the same type, scores and evidence.
C14_Deterministic ==
    \A i, j \in DOMAIN history :
        (/\ history[i].raised = ""
         /\ history[j].raised = ""
         /\ history[i].text = history[j].text)
        => history[i].result = history[j].result

\* the same text classified first and last, another text with other evidence
\* in between
C14_Witness ==
    /\ Len(history) = 3
    /\ \A i \in 1..3 : history[i].raised = ""
    /\ history[1].text = history[3].text
    /\ history[2].text # history[1].text
    /\ history[1].result.care_score = 3
    /\ history[2].result.rfid_score = 3
    /\ history[3].result = history[1].result

\* C15: classify_pdf never raises: for every document, also one whose first
\* page has fewer than 20 characters of text and whose OCR or rendering
\* collaborator fails, it returns a ClassificationResult, and when nothing
\* matches it returns type "unknown" with both evidence lists empty.
C15_NeverRaises ==
    pc \in {"classified", "raised"} =>
        /\ raised = ""
        /\ (/\ MatchingPatterns(SearchedText, care_patterns) = <<>>
            /\ MatchingPatterns(SearchedText, rfid_patterns) = <<>>)
           => (/\ classification.type = "unknown"
               /\ classification.evidence = [care_label |-> <<>>, rfid |-> <<>>])

(***************************************************************************)
(* Properties of the layout segmenter                                      *)
(***************************************************************************)
\* the extractor ran with its default arguments
DefaultConfig == config = IF extractor = "care" THEN CARE_DEFAULTS ELSE HANG_DEFAULTS

\* the positions of the items of page n, in the order of the returned list
PositionsOfPage(n) ==
    LET on_page == SelectSeq(extraction.items, LAMBDA r : r.item["page"] = n)
    IN [k \in 1..Len(on_page) |-> on_page[k].item["position"]]

\* C16: with columns=8 and skip_first_column=true (the defaults),
\* extract_care_labels and extract_hang_tags each produce exactly 7 items per
\* page, with positions exactly 1,2,...,7, for every page size.
C16_SevenPerPage ==
    (pc = "extracted" /\ DefaultConfig) =>
        \A n \in 1..Len(document.pages) : PositionsOfPage(n) = <<1, 2, 3, 4, 5, 6, 7>>

\* the page an item was cut from
PageOf(r) == document.pages[r.item["page"]]

\* C17: for every configuration and page size, a crop region that is empty
\* or inverted (right edge <= left edge after clamping, or bottom edge <= top
\* edge) is skipped and produces no item, so that every region for which
\* extract_care_labels emits an item satisfies 0 <= x0 < x1 <= page width
\* and top < bottom.
C17_RegionsWellFormed ==
    (pc = "extracted" /\ extractor = "care") =>
        \A k \in DOMAIN extraction.items :
            LET r == extraction.items[k]
            IN /\ ~FloatLess(r.region.x0, FloatOf(0))
               /\ FloatLess(r.region.x0, r.region.x1)
               /\ ~FloatLess(FloatOf(PageOf(r).width), r.region.x1)
               /\ r.region.top < r.region.bottom

\* number of characters of s that are not whitespace
NonWhitespace(s) == Len(SelectSeq(s, LAMBDA c : ~IsSpace(c)))

\* the text the field extractor must be given for a region, from the
\* embedded text and the OCR output: blank parts are left out, the others
\* are joined by a newline
ExpectedCombined(r) ==
    LET ocr == IF r.ocr_called THEN ocr_image(document.env).value ELSE <<>>
        parts == SelectSeq(<<r.label_text, ocr>>, LAMBDA p : Strip(p) # <<>>)
    IN IF parts = <<>> THEN <<>>
       ELSE IF Len(parts) = 1 THEN parts[1]
       ELSE parts[1] \o <<10>> \o parts[2]

\* C18 as stated: for every retained region the OCR collaborator is invoked
\* if and only if the embedded text of the region has fewer than 20
\* non-whitespace characters (whitespace inside the text does not count);
\* when invoked its output is appended to the embedded text before field
\* extraction, and when not invoked the embedded text alone is used.
C18_OcrIffFewNonWhitespace ==
    pc = "extracted" =>
        \A k \in DOMAIN extraction.items :
            LET r == extraction.items[k]
            IN /\ r.ocr_called <=> NonWhitespace(r.label_text) < 20
               /\ r.combined_text = ExpectedCombined(r)

\* C18 as amended: the OCR collaborator is invoked if and only if the
\* embedded text, stripped of leading and trailing whitespace only, has fewer
\* than 20 characters (whitespace inside the text counts); when it is invoked
\* and returns, its output is joined to the embedded text by a newline before
\* field extraction, a blank part being left out, and when it is not invoked
\* the embedded text alone is used.
C18_OcrIffShortStripped ==
    pc = "extracted" =>
        \A k \in DOMAIN extraction.items :
            LET r == extraction.items[k]
            IN /\ r.ocr_called <=> Len(Strip(r.label_text)) < 20
               /\ r.combined_text = ExpectedCombined(r)
               /\ ~r.ocr_called => r.combined_text = r.label_text

\* a page with a region of 21 characters, 11 of them not whitespace, that was
\* not sent to the OCR, and a padded region of 14 characters that was, its
\* output appended
C18_Witness ==
    /\ pc = "extracted"
    /\ \E k \in DOMAIN extraction.items :
           /\ extraction.items[k].label_text = T_SPACED
           /\ ~extraction.items[k].ocr_called
           /\ extraction.items[k].combined_text = T_SPACED
    /\ \E k \in DOMAIN extraction.items :
           /\ extraction.items[k].label_text = T_PADDED
           /\ extraction.items[k].ocr_called
           /\ extraction.items[k].combined_text = T_PADDED \o <<10>> \o OCR_TEXT

\* the retained regions of the document, page by page: <<page, position>>
RECURSIVE RetainedFrom(_, _)
RetainedFrom(n, i) ==
    IF n > Len(document.pages) THEN <<>>
    ELSE IF i >= config.columns THEN RetainedFrom(n + 1, StartIndex(config))
    ELSE (IF Retained(extractor, RegionOf(extractor, config, document.pages[n],
                                          ColWidth(extractor, config, document.pages[n]), i))
          THEN << <<n, i>> >> ELSE <<>>) \o RetainedFrom(n, i + 1)

\* C19: when the OCR, rendering or barcode-decoding collaborator fails while
\* a region is processed, the failure counts as empty text / no codes: the
\* extraction of the document still completes, still emits an item for that
\* region, with its page and position, and still processes all remaining
\* regions and pages.
C19_CollaboratorFailureTolerated ==
    (pc # "start" /\ config.columns > 0) =>
        /\ raised = ""
        /\ [k \in DOMAIN extraction.items |->
               <<extraction.items[k].item["page"], extraction.items[k].item["position"]>>]
           = RetainedFrom(1, StartIndex(config))

(***************************************************************************)
(* Properties of _match_item on rows and collections without a match       *)
(***************************************************************************)
\* the side reports no match exactly when the row has no style or no item
\* of the collection has the row's style, both normalized
NoneIffNoStyle(side, items, row) ==
    LET style == _normalize_value(Get(row, "style"))
        same == {j \in 1..Len(items) :
                    _normalize_value(Get(items[j], "style_number")) = style}
    IN /\ (side.match = "none") <=> (side.item = NoneItem)
       /\ (side.match = "none") <=> (style = <<>> \/ same = {})

\* C20: _match_item returns match level "none" with no matched item if and
\* only if the row's normalized style is empty or no item of the collection
\* has a normalized style_number equal to it; a row with empty style never
\* matches an item whose style is also empty, and an empty collection always
\* yields "none".
C20_NoneIffNoStyleMatch ==
    pc = "validated" =>
        \A i \in 1..Len(rows) :
            /\ NoneIffNoStyle(validation.results[i].care_label, care_labels, rows[i])
            /\ NoneIffNoStyle(validation.results[i].hang_tag, hang_tags, rows[i])

\* a row without style against care items of which one has an empty style
\* too, and against no hang tags at all: neither side matches
C20_Witness ==
    /\ pc = "validated"
    /\ Len(rows) >= 1
    /\ _normalize_value(rows[1]["style"]) = <<>>
    /\ \E j \in 1..Len(care_labels) : _normalize_value(care_labels[j]["style_number"]) = <<>>
    /\ hang_tags = <<>>
    /\ validation.results[1].care_label.match = "none"
    /\ validation.results[1].care_label.item = NoneItem
    /\ validation.results[1].hang_tag.match = "none"
    /\ validation.results[1].hang_tag.item = NoneItem

(***************************************************************************)
(* Properties of validate_rows: the summary and the frame                  *)
(***************************************************************************)
\* the rows of the result whose side reports equal codes
MatchedRows(side) ==
    {i \in 1..Len(validation.results) : validation.results[i][side].upc_matches}

\* C21: validate_rows returns exactly one result per expected row, in row
\* order, and a summary whose rows is the number of expected rows, whose
\* care_label_matches is the number of results with care_label.upc_matches
\* and whose hang_tag_matches is the number with hang_tag.upc_matches; the
\* two counts are independent and each lies in 0..rows.
C21_SummaryAggregates ==
    pc = "validated" =>
        /\ Len(validation.results) = Len(rows)
        /\ \A i \in 1..Len(rows) : validation.results[i].row = rows[i]
        /\ validation.summary.rows = Len(rows)
        /\ validation.summary.care_label_matches = Cardinality(MatchedRows("care_label"))
        /\ validation.summary.hang_tag_matches = Cardinality(MatchedRows("hang_tag"))
        /\ validation.summary.care_label_matches \in 0..Len(rows)
        /\ validation.summary.hang_tag_matches \in 0..Len(rows)

\* two rows: the first matches on the care-label side only, the second on
\* neither, so the counts are 1 and 0
C21_Witness ==
    /\ pc = "validated"
    /\ Len(rows) = 2
    /\ rows[1] # rows[2]
    /\ validation.results[1].care_label.upc_matches
    /\ ~validation.results[1].hang_tag.upc_matches
    /\ ~validation.results[2].care_label.upc_matches
    /\ validation.summary = [rows |-> 2, care_label_matches |-> 1, hang_tag_matches |-> 0]

\* the item of a side is absent or one of the objects the collection named
\* name held before the call, with the contents the collection has for it
\* after the call: the object itself, which a copy of equal contents is not
SameObject(item, name, before, after) ==
    \/ item = NoneItem
    \/ \E j \in 1..Len(before) :
           /\ item.at = <<name, j>>
           /\ item.value = before[j]
           /\ item.value = after[j]

\* C22: validate_rows leaves its inputs unchanged: after a call the expected
\* rows, the care items and the hang items are what they were before it, in
\* order, length and every field of every element, and every matched item of
\* a result that is not absent is one of the elements of the corresponding
\* input collection, the same object and not a copy of it.
C22_InputsUntouched ==
    [][(pc = "start" /\ pc' = "validated") =>
          /\ rows' = rows
          /\ care_labels' = care_labels
          /\ hang_tags' = hang_tags
          /\ \A i \in 1..Len(validation'.results) :
                 /\ validation'.results[i].row = rows[i]
                 /\ SameObject(validation'.results[i].care_label.item,
                               "care_labels", care_labels, care_labels')
                 /\ SameObject(validation'.results[i].hang_tag.item,
                               "hang_tags", hang_tags, hang_tags')]_vars

\* a call done on two care items of equal contents, whose fields are not
\* written in normalized form: the care-label side holds the first of the
\* two objects, which their contents do not tell apart, and the hang-tag
\* side holds no item
C22_Witness ==
    /\ pc = "validated"
    /\ Len(rows) >= 1 /\ Len(care_labels) = 2
    /\ care_labels[1] = care_labels[2]
    /\ validation.results[1].care_label.item # NoneItem
    /\ validation.results[1].care_label.item.at = <<"care_labels", 1>>
    /\ validation.results[1].care_label.item.value = care_labels[1]
    /\ care_labels[1].style_number # _normalize_value(care_labels[1].style_number)
    /\ validation.results[1].hang_tag.item = NoneItem

(***************************************************************************)
(* Properties of the size and composition fields of a care label           *)
(***************************************************************************)
\* C24: every composition entry produced by _extract_composition has an
\* integer percent in 0..100 and a non-empty material; percentages need not
\* sum to 100.
C24_CompositionEntriesValid ==
    (pc = "care_info" /\ "composition" \in DOMAIN label_info) =>
        \A k \in 1..Len(label_info["composition"]) :
            /\ label_info["composition"][k].percent \in 0..100
            /\ label_info["composition"][k].material # <<>>

\* the letter sizes
LETTER_SIZES == {SIZE_TOKENS[k] : k \in DOMAIN SIZE_TOKENS}

\* positions of s where a letter size stands as a word of its own
LetterTokenStarts(s) ==
    {i \in 1..Len(s) :
        \E tok \in LETTER_SIZES :
            LitAt(s, i, tok) /\ Boundary(s, i) /\ Boundary(s, i + Len(tok))}

\* w is a number of one or two digits
IsSizeNumber(w) == Len(w) \in 1..2 /\ \A k \in 1..Len(w) : IsDigit(w[k])

\* w is two such numbers around a hyphen, blanks allowed next to the hyphen
IsSizeRange(w) ==
    \E k \in 1..Len(w) :
        /\ w[k] = 45
        /\ IsSizeNumber(RStrip(SubSeq(w, 1, k - 1)))
        /\ IsSizeNumber(LStrip(SubSeq(w, k + 1, Len(w))))

\* the numeric size tokens of s: <<from, to>> of every number or range that
\* stands between word boundaries
NumericTokens(s) ==
    {g \in (1..Len(s)) \X (1..Len(s)) :
        /\ g[1] <= g[2]
        /\ IsDigit(s[g[1]]) /\ IsDigit(s[g[2]])
        /\ Boundary(s, g[1]) /\ Boundary(s, g[2] + 1)
        /\ (IsSizeNumber(SubSeq(s, g[1], g[2])) \/ IsSizeRange(SubSeq(s, g[1], g[2])))}

\* the first of them: the leftmost, a range rather than its first number
FirstNumericToken(s) ==
    CHOOSE g \in NumericTokens(s) :
        \A h \in NumericTokens(s) : g[1] < h[1] \/ (g[1] = h[1] /\ g[2] >= h[2])

\* the fixed table from numeric sizes to letter sizes
SIZE_TABLE ==
    { << <<48, 45, 50>>, <<88, 83>> >>,                \* 0-2 -> XS
      << <<52, 45, 54>>, <<83>> >>,                    \* 4-6 -> S
      << <<56, 45, 49, 48>>, <<77>> >>,                \* 8-10 -> M
      << <<49, 50, 45, 49, 52>>, <<76>> >>,            \* 12-14 -> L
      << <<49, 54, 45, 49, 56>>, <<88, 76>> >>,        \* 16-18 -> XL
      << <<50, 48>>, <<88, 88, 76>> >>,                \* 20 -> XXL
      << <<50, 50>>, <<88, 88, 88, 76>> >> }           \* 22 -> XXXL

\* the fields size and size_range of info are those of the numeric token g
\* of the normalized text s
NumericSizeFields(info, s, g) ==
    LET r == SelectSeq(SubSeq(s, g[1], g[2]), LAMBDA c : c # SP)
    IN /\ "size_range" \in DOMAIN info /\ info["size_range"] = r
       /\ \A e \in SIZE_TABLE : e[1] = r => ("size" \in DOMAIN info /\ info["size"] = e[2])
       /\ (\A e \in SIZE_TABLE : e[1] # r) => "size" \notin DOMAIN info

\* C25: when the normalized text holds no letter size standing alone,
\* _extract_size takes the first numeric size token, records it without
\* spaces as size_range and sets size through the fixed table; a token
\* outside the table gives size_range only. A size that is present is always
\* one of XS, S, M, L, XL, XXL, XXXL.
C25_NumericSizeFallback ==
    pc = "care_info" =>
        /\ LetterTokenStarts(normalize_text(text)) = {} =>
               IF NumericTokens(normalize_text(text)) = {}
               THEN "size" \notin DOMAIN label_info /\ "size_range" \notin DOMAIN label_info
               ELSE NumericSizeFields(label_info, normalize_text(text),
                                      FirstNumericToken(normalize_text(text)))
        /\ "size" \in DOMAIN label_info => label_info["size"] \in LETTER_SIZES

\* a label without letter size whose first numeric token "8 - 10" is written
\* with blanks: size_range is "8-10" and size is M
C25_Witness ==
    /\ pc = "care_info"
    /\ LetterTokenStarts(normalize_text(text)) = {}
    /\ Len(normalize_text(text)) >= 6
    /\ SubSeq(normalize_text(text), 1, 6) = <<56, 32, 45, 32, 49, 48>>
    /\ "size_range" \in DOMAIN label_info
    /\ label_info["size_range"] = <<56, 45, 49, 48>>
    /\ "size" \in DOMAIN label_info
    /\ label_info["size"] = <<77>>

\* the parenthesized group that follows position p of s, blanks skipped:
\* its content, "" when no group starts there
GroupRightAfter(s, p) ==
    LET q == p + SpaceRun(s, p)
        closing == {j \in (q + 2)..Len(s) : s[j] = 41}
    IN IF q <= Len(s) /\ s[q] = 40 /\ closing # {}
       THEN SubSeq(s, q + 1, SetMin(closing) - 1) ELSE <<>>

\* C27: when _extract_size finds a letter size, size_range is recorded only
\* from a parenthesized group that immediately follows the matched
\* occurrence of the token (blanks allowed); a group that follows some other,
\* later token is never recorded as the size_range of the matched size.
C27_RangeFollowsMatchedToken ==
    (pc = "care_info" /\ LetterTokenStarts(normalize_text(text)) # {}
                      /\ "size_range" \in DOMAIN label_info) =>
        label_info["size_range"] =
            GroupRightAfter(normalize_text(text),
                            SetMin(LetterTokenStarts(normalize_text(text)))
                                + Len(label_info["size"]))

(***************************************************************************)
(* Properties of the items and regions of multi-page documents             *)
(***************************************************************************)
\* <<page, position>> of the items emitted, in the order of the list
Provenance ==
    [k \in DOMAIN extraction.items |->
        <<extraction.items[k].item["page"], extraction.items[k].item["position"]>>]

\* C26: for any document the segmenter emits exactly one item per retained
\* region, in page order and within a page in ascending column order; each
\* item carries the 1-based number of its page and the 0-based index of its
\* column, so no two items share the same (page, position) pair.
C26_OneItemPerRetainedRegion ==
    (pc # "start" /\ extractor \in {"care", "hang"} /\ config.columns > 0) =>
        /\ Provenance = RetainedFrom(1, StartIndex(config))
        /\ \A k \in DOMAIN Provenance :
               /\ Provenance[k][1] \in 1..Len(document.pages)
               /\ Provenance[k][2] \in StartIndex(config)..(config.columns - 1)
               /\ \A m \in DOMAIN Provenance :
                      k < m => \/ Provenance[k][1] < Provenance[m][1]
                               \/ /\ Provenance[k][1] = Provenance[m][1]
                                  /\ Provenance[k][2] < Provenance[m][2]

\* x clamped to the width of the page
ClampedToPage(x, page) ==
    IF FloatLess(x, FloatOf(0)) THEN FloatOf(0)
    ELSE IF FloatLess(FloatOf(page.width), x) THEN FloatOf(page.width) ELSE x

\* the left edge of column i of columns as wide as the page's width divided
\* by the column count, computed in floats as the code computes
OwnEdge(page, i) ==
    FloatAdd(FloatOf(config.left_offset), FloatMul(i, FloatDiv(page.width, config.columns)))

\* the region was cut with the column width of its own page: page width
\* divided by the column count
CutWithOwnWidth(region, page, i) ==
    /\ region.x0 = ClampedToPage(OwnEdge(page, i), page)
    /\ region.x1 = ClampedToPage(OwnEdge(page, i + 1), page)

\* C28: when no column width override is configured, every page of a
\* multi-page document is segmented with the column width of that page's own
\* width divided by the column count, also the pages after the first whose
\* width differs from the first page's; in extract_care_labels and in
\* split_care_labels.
C28_WidthOfOwnPage ==
    /\ (pc = "extracted" /\ extractor = "care" /\ config.column_width = 0) =>
           \A k \in DOMAIN extraction.items :
               CutWithOwnWidth(extraction.items[k].region,
                               document.pages[extraction.items[k].item["page"]],
                               extraction.items[k].item["position"])
    /\ (pc = "split" /\ config.column_width = 0) =>
           \A k \in DOMAIN extraction.output_paths :
               CutWithOwnWidth(extraction.output_paths[k].region,
                               document.pages[extraction.output_paths[k].page],
                               extraction.output_paths[k].position)

(***************************************************************************)
(* Properties of _normalize_items                                          *)
(***************************************************************************)
\* the value under the key is present: neither missing nor empty
Present(d, key) == key \in DOMAIN d /\ d[key] # <<>> /\ d[key] # None

\* the first of the three codes of the item that is present, None when none is
FirstCode(item) ==
    IF Present(item, "upc") THEN item["upc"]
    ELSE IF Present(item, "barcode") THEN item["barcode"]
    ELSE IF Present(item, "upc_candidate") THEN item["upc_candidate"]
    ELSE None

\* the item's own value when present, else the parent's, None when neither is
OwnOrParent(item, parent_info, key) ==
    IF Present(item, key) THEN item[key]
    ELSE IF Present(parent_info, key) THEN parent_info[key]
    ELSE None

\* C30: for every item, _normalize_items sets the merged upc to the first
\* non-empty of the item's checksum-valid upc, its decoded barcode and its
\* upc_candidate, in that order; style_number and color fall back to the
\* parent info only when the item's own value is missing; the input item is
\* not modified.
C30_MergedFields ==
    [][(pc = "start" /\ pc' = "merged") =>
          /\ metadata' = metadata
          /\ Len(merged') = Len(metadata.items)
          /\ \A k \in 1..Len(metadata.items) :
                 /\ merged'[k].upc = FirstCode(metadata.items[k])
                 /\ merged'[k].style_number
                        = OwnOrParent(metadata.items[k], metadata.parent_info, "style_number")
                 /\ merged'[k].color
                        = OwnOrParent(metadata.items[k], metadata.parent_info, "color")]_vars

\* an item with a failed candidate and a decoded barcode gets the barcode, an
\* item with a candidate only gets the candidate and the parent's style
C30_Witness ==
    /\ pc = "merged"
    /\ Len(merged) = 2
    /\ Present(metadata.items[1], "upc_candidate") /\ Present(metadata.items[1], "barcode")
    /\ ~Present(metadata.items[1], "upc")
    /\ merged[1].upc = metadata.items[1]["barcode"]
    /\ merged[1].style_number = metadata.items[1]["style_number"]
    /\ Present(metadata.parent_info, "style_number")
    /\ ~Present(metadata.items[2], "barcode") /\ ~Present(metadata.items[2], "style_number")
    /\ merged[2].upc = UPC_INVALID
    /\ merged[2].style_number = metadata.parent_info["style_number"]

(***************************************************************************)
(* Properties of the /extract handler                                      *)
(***************************************************************************)
\* the calls the handler made for file f, in the order it made them
CallsFor(f) == SelectSeq(calls, LAMBDA c : c.file = f)

\* the places in a sequence of calls where the operation op was called
Places(cs, op) == {k \in 1..Len(cs) : cs[k].op = op}

\* the handler is done with file f: the loop went past it, or the request
\* ended
DoneWith(f) == f < file_index \/ pc \in {"returned", "failed"}

\* file f went through the loop without an exception
Completed(f) == f < file_index \/ (pc = "returned" /\ f <= Len(uploads))

\* the calls of file f that raised an exception the handler does not catch
Failures(cs) ==
    {k \in 1..Len(cs) : cs[k].op \in {"classify", "care", "hang"} /\ cs[k].raised # ""}

\* the routing by the classification: a document classified care_label never
\* reaches hang-tag extraction, one classified rfid never reaches care-label
\* extraction, one classified unknown reaches hang-tag extraction only after
\* a care-label extraction that returned an empty list (and then always)
RoutedByType(f) ==
    LET cs == CallsFor(f)
        types == {cs[k].type : k \in Places(cs, "classify")}
    IN /\ "care_label" \in types =>
              Places(cs, "hang") = {} /\ Places(cs, "extend_hang") = {}
       /\ "rfid" \in types =>
              Places(cs, "care") = {} /\ Places(cs, "extend_care") = {}
       /\ "unknown" \in types =>
              /\ \A h \in Places(cs, "hang") : \E c \in Places(cs, "care") :
                     c < h /\ cs[c].raised = "" /\ cs[c].n = 0
              /\ \A c \in Places(cs, "care") :
                     /\ cs[c].n > 0 => Places(cs, "hang") = {}
                     /\ (cs[c].raised = "" /\ cs[c].n = 0 /\ DoneWith(f)) =>
                            Places(cs, "hang") # {}

\* the collections file f extended
Extensions(f) ==
    Places(CallsFor(f), "extend_care") \cup Places(CallsFor(f), "extend_hang")

\* C29 as stated: the paths are ordered by the classification, every PDF the
\* handler took up and is done with extended exactly one of the two
\* collections, and its temporary copy is gone, whether or not a call raised
C29_AsStated ==
    \A f \in 1..Len(uploads) :
        /\ RoutedByType(f)
        /\ (DoneWith(f) /\ Places(CallsFor(f), "save") # {}) =>
               /\ Cardinality(Extensions(f)) = 1
               /\ f \notin tmp_files

\* C29, amended: the paths are ordered by the classification; a PDF whose
\* classification and extraction returned extends exactly one of the two
\* collections, once, and a PDF for which one of them raised extends none
\* (the request ends with that exception); after the try block, whether it
\* raised or not, os.remove is called once on the temporary copy, as the
\* last call for the file; the copy exists from its creation until an
\* os.remove that returns, and stays when os.remove raises OSError, which
\* the handler swallows: the request then goes on as after a removal, and
\* never ends with the exception of os.remove
C29_RoutingAndCleanup ==
    \A f \in 1..Len(uploads) :
        LET cs == CallsFor(f)
        IN /\ RoutedByType(f)
           /\ \A e \in Extensions(f) : \E c \in Places(cs, "classify") :
                  c < e /\ cs[c].raised = ""
           /\ Cardinality(Extensions(f)) <= 1
           /\ Completed(f) => Cardinality(Extensions(f)) = 1 /\ Failures(cs) = {}
           /\ Failures(cs) # {} => Extensions(f) = {}
           /\ (DoneWith(f) /\ Failures(cs) # {}) =>
                  pc = "failed" /\ \E k \in Failures(cs) : raised = cs[k].raised
           /\ Cardinality(Places(cs, "remove")) <= 1
           /\ \A r \in Places(cs, "remove") : r = Len(cs)
           /\ (DoneWith(f) /\ Places(cs, "save") # {}) => Places(cs, "remove") # {}
           /\ (f \in tmp_files) <=>
                  /\ Places(cs, "save") # {}
                  /\ \A r \in Places(cs, "remove") : cs[r].raised # ""
           /\ \A r \in Places(cs, "remove") :
                  /\ cs[r].raised = uploads[f].remove_raises
                  /\ cs[r].raised \in OS_ERRORS =>
                         /\ Failures(cs) = {} => Completed(f)
                         /\ pc = "failed" => raised # cs[r].raised

\* a request of two care-label sheets whose copies os.remove cannot delete:
\* the first extended care_labels and the handler went on to the second,
\* whose extraction raised; the request ended with that exception, not with
\* the one of os.remove, and both copies are still on disk
C29_Witness ==
    /\ pc = "failed"
    /\ raised = "RuntimeError"
    /\ Len(uploads) = 2
    /\ [k \in 1..Len(CallsFor(1)) |-> CallsFor(1)[k].op] =
           <<"save", "classify", "care", "extend_care", "remove">>
    /\ CallsFor(1)[4].n > 0
    /\ CallsFor(1)[5].raised = "PermissionError"
    /\ [k \in 1..Len(CallsFor(2)) |-> CallsFor(2)[k].op] = <<"save", "classify", "care", "remove">>
    /\ CallsFor(2)[3].raised = "RuntimeError"
    /\ CallsFor(2)[4].raised = "OSError"
    /\ tmp_files = {1, 2}

(***************************************************************************)
(* Properties of read_spreadsheet                                          *)
(***************************************************************************)
\* the column the claim lets care_upc be read from: the explicit care-label
\* column when the sheet has one, else the generic upc column unless that is
\* the column mapped as the hang-tag column, else none
CareUpcSource(column_map) ==
    IF column_map.care_upc # <<>> THEN column_map.care_upc
    ELSE IF column_map.upc # column_map.hang_upc THEN column_map.upc
    ELSE <<>>

\* C23: the care_upc of every row read is the digits of the cell under the
\* explicit care-label column when the sheet has one (empty when that cell
\* has no digit), the digits of the generic upc column only when it has
\* none, and never the digits of the column mapped as the hang-tag column
C23_CareUpcSource ==
    pc = "read" =>
        \A r \in 1..Len(sheet_rows) :
            sheet_rows[r].care_upc =
                UpcUnder(sheet, r, CareUpcSource(_map_columns(sheet.columns)))

====
